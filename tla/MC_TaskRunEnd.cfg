\* Does status.end report a failure of begin()?
SPECIFICATION Spec
INVARIANT EndCarriesBeginError
