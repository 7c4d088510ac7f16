\* Three slots and two distinguishable elements: the indices wrap, and the
\* queue is filled and emptied from every position of front.
CONSTANTS
  Capacity = 3
  Element = {e1, e2}
  NULL = NULL
  Garbage = Garbage
SPECIFICATION Spec
INVARIANT IndicesAgree
PROPERTY ImplementsFifo
