\* Two clients request secure mode at once; one secure session allowed.
CONSTANTS
  Session = {s1, s2, s3}
  MaxSecure = 1
SPECIFICATION Spec
PROPERTY NoSpuriousRejection
