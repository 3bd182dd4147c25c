SPECIFICATION Spec
CONSTANT Moduli = {4, 8, 16, 32}
INVARIANT ConstantMinusKept
