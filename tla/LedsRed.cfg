\* A session that failed, after one that did not.
CONSTANT TeamColors <- MCGreen
SPECIFICATION Spec
PROPERTY FailureIsRed
