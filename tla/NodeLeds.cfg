\* One team color, and everything that the other tasks may do.
CONSTANT TeamColors <- MCMixed
SPECIFICATION Spec
INVARIANT TypeOK
PROPERTIES
  IdleShowsColor
  MeshIsShown
  StripIsCurrent
