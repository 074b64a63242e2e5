SPECIFICATION Spec
CONSTANTS
  reason = reason
  url = url
  spam = spam
  envelope = envelope
  k1 = k1
  k2 = k2
  k3 = k3
  None = None
  Failed = Failed
  Cells = {reason, url}
  Texts = {spam, envelope}
  Lookalikes = {envelope}
  Keys = {k1, k2, k3}
SYMMETRY KeyCellSymmetry
INVARIANT PrivacyTypeOK
INVARIANT EncryptedAtHead
INVARIANT ReadsTrue
PROPERTY RollbackRestores
