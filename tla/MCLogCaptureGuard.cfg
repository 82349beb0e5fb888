SPECIFICATION Spec
CONSTANT BatchCapacity = 2
INVARIANT CaptureEnabledWhenIdle
