SPECIFICATION Spec
INVARIANT CheckpointAccepted
