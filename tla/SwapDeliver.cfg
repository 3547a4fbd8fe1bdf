SPECIFICATION Spec
INVARIANT NoPanic
