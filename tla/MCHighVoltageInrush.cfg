SPECIFICATION Spec
PROPERTY
  NoInrush
