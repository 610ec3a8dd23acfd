\* One request after another, in pieces of any size.  MaxSpare allows uris of
\* a path, an extension and a query; Buckets is small so that chains have
\* two elements; IntBits is small so that a Content-Length can overflow.
CONSTANTS
  Words = {"GET", "POST", "UNKNOWN"}
  Kinds <- MCKinds
  MaxSpare = 2
  MaxSpareHeader = 2
  MaxLines = 2
  MaxHost = 5
  BodyRoom = 3
  Buckets = 1
  HostName <- MCHostName
  ContentLengthName <- MCContentLengthName
  IntBits = 6
  HashBits = 20
  Stale = 77777
SPECIFICATION Spec
INVARIANTS ParsedInOnePiece   HostIsRight
           AnswersAreFound 
