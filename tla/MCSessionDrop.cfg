\* The claim of a stream that was closed or dropped, against rx/mod.rs:102.
SPECIFICATION Spec
CONSTANTS
  Streams = {s1}
  Configs = {c1}
  Dev = Dev
  Unknown = Unknown
INVARIANT DropFreesClaim
