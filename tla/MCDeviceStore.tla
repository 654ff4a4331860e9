--------------------------- MODULE MCDeviceStore ---------------------------
EXTENDS DeviceStore, TLC

Symmetry == Permutations(Devices)
============================================================================
