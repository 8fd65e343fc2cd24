SPECIFICATION Spec
CONSTANTS
  Conns = {o1, o2}
  Main = epoll
  Pool = {p1}
  Send = send
  Timer = timer
  Recycle = recycle
  Null = Null
  MaxFd = 2
SYMMETRY Symmetry
INVARIANTS NoDeadlock NoFdLeak FdOwned
