SPECIFICATION Spec
CONSTANTS
  Requests = {"r1"}
  Handlers = {"r1", "r2"}
  Commands = {"c1"}
  Asked <- Hosts
  Names <- Both
  Places = {"p1", "p2"}
  Upstreams <- NoneOrExactly
  ByHand <- NoneOrBoth
  MaxWrites = 3
  Paths = {"uploaded", "certbot"}
  Issued = {"own", "wild"}
  NotAfter <- Ends
  LeafNames <- Leaves
  MaxPuts = 3
  Owners = {"g", "y"}
  MaxHeld = 1
  MaxEdits = 3
  Values = {"v1", "v2"}
  Name <- SameName
  Days = {2}
  UsedEvery = 2
  MaxTime = 3
  MaxRequests = 3
  Faults = {"write", "open", "unheard", "kill"}
  Logins = {"owner"}
  Passwords = {"first", "second"}
  Keys = {"key"}
  Ttl = 1
  MaxDays = 2
  MaxSaves = 3
INVARIANTS
  SteadySiteIsServed
  TokensStand
  EntryIsEarned
  RunsAsAnswered
  TokenIsKept
PROPERTY ChangesComeInForce
