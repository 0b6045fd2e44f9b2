-------------------------------- MODULE MCWire --------------------------------
EXTENDS Wire

(***************************************************************************)
(* Values.  The shape of a message says how much of it there is:           *)
(*   "blank"      a default-constructed one                                *)
(*   "least"      the shortest one the program builds                      *)
(*   "some"       every optional part, two entries in every list           *)
(*   "most"       every text and list at its bound                         *)
(*   "crowded"    as "some", with more path shares than the bound for one  *)
(*                demand: the policy sets no path limit                    *)
(*   "ungreeted"  as "some", made before the handshake                     *)
(*   "newer"      made by a publisher of a later protocol version          *)
(*   "unknown"    a query reply about a plan that does not exist           *)
(*   "refused"    a default-constructed response with an error code        *)
(* Values are told apart by their place, so that a reader that takes one   *)
(* field for another takes the wrong value.                                *)
(***************************************************************************)
Copies(k, n) == [i \in 1 .. n |-> k]

Entries(f, shape) ==
    CASE shape \in {"blank", "least"} -> 0
      [] shape = "most" -> MaxEntries
      [] shape = "crowded" /\ f.name = "shares" -> MaxEntries + 1
      [] OTHER -> 2

RECURSIVE Filled(_, _, _)
Value(f, shape, k) ==
    LET bare == shape \in {"blank", "least"}
        given(max) == Copies(k, IF shape = "most" THEN max ELSE 1) IN
    CASE f.kind = "int" -> IF bare THEN 0 ELSE k
      [] f.kind = "gen" -> IF shape = "blank" THEN 0 ELSE IF bare THEN 1 ELSE k
      [] f.kind = "version" -> FormatVersion
      [] f.kind = "enum" -> IF bare THEN 0 ELSE IF shape = "most" THEN f.last ELSE k % (f.last + 1)
      [] f.kind = "flag" -> ~bare /\ (k % 2 = 0) = (shape = "most")
      [] f.kind = "id" -> IF shape = "blank" THEN << >> ELSE given(MaxName)
      [] f.kind = "optid" -> IF bare THEN << >> ELSE given(MaxName)
      [] f.kind = "text" -> IF bare THEN << >> ELSE given(MaxText)
      [] f.kind = "longtext" -> IF bare THEN << >> ELSE given(MaxText + 1)
      [] f.kind = "opt" -> IF bare THEN << >> ELSE <<k>>
      [] f.kind = "ref" -> IF bare THEN [id |-> << >>, generation |-> 0]
                           ELSE [id |-> given(MaxName), generation |-> k]
      [] f.kind \in {"part", "blob"} -> Filled(f.of, shape, 3 * k)
      [] f.kind = "optblob" -> IF bare THEN << >> ELSE <<Filled(f.of, shape, 3 * k)>>
      [] f.kind = "list" -> [i \in 1 .. Entries(f, shape) |-> Filled(f.of, shape, 3 * k + i)]
Filled(layout, shape, k) ==
    [name \in {layout[i].name : i \in DOMAIN layout} |->
        LET i == CHOOSE j \in DOMAIN layout : layout[j].name = name IN
        Value(layout[i], shape, k + i)]

MCValue(m) ==
    LET filled == Filled(Written[m.type], m.shape, 1)
    IN  CASE m.shape = "ungreeted" -> [filled EXCEPT !.binding.coordinator_incarnation = 0,
                                                     !.binding.coordinator_epoch = 0]
          [] m.shape = "newer" -> [filled EXCEPT !.protocol_version = WireVersion + 1]
          [] m.shape = "unknown" -> [filled EXCEPT !.plan = Filled(PlanWritten, "blank", 1)]
          [] m.shape = "refused" -> [Filled(Written[m.type], "blank", 1) EXCEPT !.code = 1]
          [] m.type \in {"hello_request", "hello_response"} ->
                [filled EXCEPT !.protocol_version = WireVersion]
          [] OTHER -> filled

MCValues == [m \in Sent \cup Stored |-> MCValue(m)]

\* Every request of PublisherClient, filled and at its bounds; a plan request
\* without its optional parts; a commit before the handshake; a handshake of a
\* later version.
MCCalls ==
    {Named(type, shape) :
        type \in Requests, shape \in {"some", "most"}}
    \cup {Named("plan_request", "least"), Named("commit_request", "ungreeted"),
          Named("hello_request", "newer")}
MCShapes == {"least", "some", "most"}

Commits == {Named("commit_request", "some")}
Queries == {Named("query_request", "some")}
Crowded == {"some", "crowded"}
Unknown == {"some", "unknown"}
===============================================================================
