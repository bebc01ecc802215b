CONSTANTS
  Senders = {"clocksim"}
  NTags = 3
  Skew = FALSE
SPECIFICATION Spec
INVARIANT SerializerKeepsFormat
