\* A second StartVideoEncoder() opens the context the first Stop has closed.
SPECIFICATION Spec
CONSTANT Params = {params1, params2}
PROPERTY NeverReopened
