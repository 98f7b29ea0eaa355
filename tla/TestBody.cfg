SPECIFICATION BodySpec
CONSTANTS
  Handles <- MCHandles
  NameOf <- MCNameOf
  Unsigned <- MCUnsigned
  Local = "local_actor"
  Literals <- MCLiterals
  MaxDicts = 3
  MaxPosts = 1
  MaxEdits = 1
  Fields <- MCFields
  Closed = "closed"
  DateValues <- MCDateValues
  AcceptHeaders <- MCAcceptHeaders
  Subtypes <- MCSubtypes
  Requests <- MCRequests
  Unquoted <- MCUnquoted
  HeaderLists <- MCHeaderLists
  Date = "now"
  Absent = Absent
CHECK_DEADLOCK FALSE
INVARIANTS
  OneFamilyPerId
  SetupIsServed
  FetchedIsPosted
  ActivityNamesItsActor
  SignerIsKnown
  
  ContentTypeRecovered
  SignatureHolds
  SignsAllOrNothing
