\* The fixture of the tests: a first deployment on the network hardhat.
SPECIFICATION Spec
CONSTANTS
  Networks <- TestNetwork
  StrayFile = TRUE
  MaxCrashes = 0
  MaxAfter = 0
PROPERTIES
  FixtureDeploys
CHECK_DEADLOCK FALSE
