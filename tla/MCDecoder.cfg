SPECIFICATION Spec
CONSTANT Flavors <- AllFlavors
INVARIANTS OneEntryPerOpcode NoMissingEmitter NoSilentDefaultArm OpcodeBytesMeanWhatTheyTest
