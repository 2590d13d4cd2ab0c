CONSTANT Workers = {w1}
SPECIFICATION Spec
INVARIANT QuitWorkerIsAsync
