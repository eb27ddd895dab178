SPECIFICATION Spec
CONSTANT MaxEvents = 3
INVARIANTS TypeOK DacHasNoCard 
PROPERTIES ReleaseIsKept CardSettles
