SPECIFICATION Spec
INVARIANT ZeroizedAfterUse
