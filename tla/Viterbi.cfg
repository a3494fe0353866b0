SPECIFICATION Spec
CONSTANTS
  Memory = 2
  Modulus = 360
  Period = 2
  Polynomials = {{1, 2, 3}, {1, 3}}
  Penalties = {100}
  Symbols = {30, 200}
  StepCounts = {1, 3}
  MaxSteps = 4
INVARIANTS TypeOK NeverSaturates CostsAreExact SurvivorsAreBest
