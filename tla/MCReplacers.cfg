\* Four pages pushed, deleted and picked in every order.
SPECIFICATION Spec
CONSTANTS
  Keys = {k1, k2, k3, k4}
  None = None
  Nil = Nil
INVARIANT NoStarvation
PROPERTIES VictimsFollowPolicy BothImplementReplacer
