CONSTANT Argvs <- MCArgvs
SPECIFICATION Spec
INVARIANT TypeOK
PROPERTIES ImplementsCommandLine Terminates
CHECK_DEADLOCK FALSE
