SPECIFICATION Spec
CONSTANT MaxEvents = 2
INVARIANT OneWriter
