SPECIFICATION PlayerSpec
PROPERTY DeinitTakesEffect
CHECK_DEADLOCK FALSE
