\* Two values, one event waiting behind the one being compared,
\* restarts at any step.
SPECIFICATION Spec
CONSTANTS
  KValues = {1, 2}
  QueueLimit = 1
INVARIANTS
  TypeOK
  ResultIsCurrent
  ResultIsPublished
PROPERTIES
  StartCompletes
