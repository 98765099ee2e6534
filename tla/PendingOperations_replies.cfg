CONSTANTS
  web = web
  panel = panel
  read = read
  write = write
  call = call
  home = home
  Servers = {web, panel}
  Messages = {read, write, home}
  ServerOf <- TwoOnWeb
  Collectors = {c1, c2}
  MaxSize = 1
  Bounded = TRUE
  None = None
SPECIFICATION FairSpec
INVARIANTS TypeOK WrittenOnce NothingLost NeverAwaitsCancelled
PROPERTIES PatientIsServed
CHECK_DEADLOCK FALSE
