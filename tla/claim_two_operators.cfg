\* Two runs of the command while the service writes and accounts change.
SPECIFICATION Spec
CONSTANTS
  Claims = {c1, c2}
  Users = {"ann", "bob", "cy"}  Addresses = {"a", "b"}
  Logins <- Reported  Managed = {"cy"}  Known <- AtFirst
  Mailboxes = {"box1", "box2"}  Mail = {"mail1", "mail2", "old"}  Parts = {"file0", "file1"}
  Events = {"event1", "event2"}  Changes = {"change1"}
  Parent <- Tree  Address <- BoxAddress  Copied <- Sources
  Late = {"mail2", "event2"}
  Legacy = Legacy  None = None
SYMMETRY ClaimSymmetry
CHECK_DEADLOCK FALSE
INVARIANTS IInv OwnersAgree MailToItsAddressee ClaimIsComplete
PROPERTIES NeverTakenFromAPerson
