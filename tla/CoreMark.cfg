CONSTANT Configs <- CompiledConfigs
SPECIFICATION Spec
INVARIANTS Inv Restored Validated
PROPERTIES ImplementsBenchList Terminates
