SPECIFICATION Spec
INVARIANT InStep
\* A message ends when both halves have no part left.
CHECK_DEADLOCK FALSE
