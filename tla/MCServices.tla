------------------------------ MODULE MCServices ------------------------------
(***************************************************************************)
(* What the server offers beside its tables, on small instances: the       *)
(* door, the wire format, authorisation with scans and polls, procedures,  *)
(* search and fan-out, notifications.  They are checked side by side: a    *)
(* behaviour runs one part and leaves the others at their first state.     *)
(***************************************************************************)
EXTENDS Admission, WireInterop, Frames, Procedures, Social, Notifications

----------------------------------------------------------------------------
(* The door: three peers share an address, of one the address is unknown.  *)

CONSTANTS c1, c2, c3, c4, a

MCPeers == (c1 :> a) @@ (c2 :> a) @@ (c3 :> a) @@ (c4 :> NoIp)

----------------------------------------------------------------------------
(* The wire: two texts have the shape of a uuid.                           *)

MCUuids == (<<5, 5>> :> <<1, 100>>) @@ (<<5, 6>> :> <<0, 0>>)

----------------------------------------------------------------------------
(* Authorisation: a session of ann, configured identities of bob and of an *)
(* administrator; rows of ann and bob on two shards.                       *)

Identity(s, r, p) == [subject |-> s, roles |-> r, perms |-> p]

MCIdentities ==
    ("tb" :> Identity("bob", {"dev"}, {"read", "write", "delete"}))
      @@ ("tr" :> Identity("root", {"admin", "ops"}, {}))
MCSessions == "ta" :> Identity("ann", {}, {"read", "write", "delete"})
MCRows == (1 :> "bob") @@ (2 :> "ann") @@ (4 :> "bob")
MCRules ==
    [roles : {{"dev"}, {"ops", "dev"}}, resource : {"*", "t"}, permission : {"read", "write"},
     effect : {"Allow", "Deny"}]

----------------------------------------------------------------------------
(* Frames: requests on a row of bob's, which he can give to ann; an insert *)
(* of its unique value; two inserts share a key, two a value.              *)

FrameOp(op, row, set, idem) == [op |-> op, row |-> row, set |-> set, idem |-> idem, token |-> NoToken]
FrameRow(s, k) == [owner |-> s, k |-> k, n |-> 0]
FrameInsert(k, idem) == FrameOp("Insert", NoRow, FrameRow("bob", k), idem)

MCFrameOps ==
    {FrameInsert(1, NoKey), FrameInsert(3, NoKey), FrameInsert(3, "key"), FrameInsert(4, "key"),
     FrameOp("Get", 1, NoRow, NoKey), FrameOp("Update", 1, "n" :> 1, NoKey),
     FrameOp("Update", 1, "owner" :> "ann", NoKey), FrameOp("Delete", 1, NoRow, NoKey),
     FrameOp("Scan", NoRow, NoRow, NoKey)}
MCFrameTables ==
    {[rows |-> [i \in FrameIds |-> CASE i = 1 -> FrameRow("bob", 1) [] i = 2 -> FrameRow("ann", 2) [] OTHER -> NoRow],
      next |-> 3, idem |-> <<>>, log |-> <<>>]}

----------------------------------------------------------------------------
(* Procedures: deploy requests, some of them invalid, on a table of two    *)
(* rows.                                                                   *)

X  == <<"x">>
UN == <<"u", "n">>
UM == <<"u", "m">>
UId == <<"u", "#id">>

MCVars == {X, UN, UM, UId}
MCArgs == {[v \in MCVars |-> IF v = X THEN k ELSE Unset] : k \in {Unset, 2}}
MCProcRows == (1 :> [n |-> 2, m |-> -3]) @@ (2 :> [n |-> 1, m |-> 0])

Envelope(name, steps) ==
    [v |-> 1, table |-> name, name |-> name, names_ok |-> TRUE, literals |-> {}, steps |-> steps]
Literal(form, n, parses) == [form |-> form, n |-> n, parses |-> parses]

Given == Condition("IsNotNull", X, Lit(0))

\* Reads row 1 and changes row x; fails in a branch that calls a function.
Transfer ==
    <<ReadStep(Lit(1), "u"),
      IfStep(Combined("All", <<Given, Condition("GreaterOrEqual", UN, Ref(X))>>),
             <<UpdateStep(Ref(X), "m", Ref(UN)), UpdateStep(Ref(X), "n", Lit(0))>>,
             <<SetVariable(X, Lit(2)), CallFunction("late", <<Ref(X)>>), FailStep>>),
      InsertStep("n", Ref(UM), X),
      ReturnStep(Ref(UN))>>

\* Reads its own update, and ends with a Return in a branch.
Move ==
    <<UpdateStep(Ref(X), "n", Lit(2)),
      ReadStep(Ref(X), "u"),
      IfStep(Combined("Any", <<Condition("LessThan", UN, Lit(2)), Condition("Equals", UN, Lit(2))>>),
             <<CallFunction("abs", <<Ref(UM)>>), DeleteStep(Lit(1)), ReturnStep(Ref(X))>>, <<>>)>>

\* Writes nothing.
Peek ==
    <<IfStep(Condition("NotEquals", X, Lit(2)),
             <<CallFunction("coalesce", <<Ref(UN), Ref(X)>>)>>, <<ReadStep(Lit(1), "u")>>)>>

\* Exceeds the fuel when x is given.
Sets == <<SetVariable(X, Lit(1)), SetVariable(X, Lit(2)), SetVariable(X, Ref(UN))>>
Long == <<DeleteStep(Lit(1)), IfStep(Given, Sets, <<>>),
          IfStep(Condition("IsNotNull", UId, Lit(0)), <<>>, Sets)>>

\* Nested one If deeper than is allowed.
Deep == <<IfStep(Given, <<IfStep(Given, <<IfStep(Given, <<FailStep>>, <<>>)>>, <<>>)>>, <<>>)>>

MCEnvelopes ==
    {Envelope("p", Transfer), Envelope("p", Move), Envelope("q", Peek), Envelope("p", Long),
     Envelope("q", Deep), Envelope("q", <<>>), Envelope("q", Move \o Move),
     [Envelope("q", Move) EXCEPT !.v = 2], [Envelope("q", Move) EXCEPT !.table = "p"],
     [Envelope("q", Move) EXCEPT !.names_ok = FALSE]}
      \cup {[Envelope("q", Move) EXCEPT !.literals = {l}] :
              l \in {Literal("$i32", 8, TRUE), Literal("$u32", -1, TRUE), Literal("$i64", 32, TRUE),
                     Literal("$u64", 64, TRUE), Literal("$bytes", 5, TRUE), Literal("$date", 1, FALSE),
                     Literal("uuid string", 1, FALSE), Literal("string", 5, TRUE)}}

\* A Return in a branch, with a step behind the If.
MCReturnEnvelopes == {Envelope("p", <<IfStep(Given, <<ReturnStep(Lit(1))>>, <<>>), DeleteStep(Lit(1))>>)}

----------------------------------------------------------------------------
(* Posts: bodies that share words, one longer than is indexed; rows of the *)
(* follows tables, one of them about nobody who posts.                     *)

MCBodies == {<<"x", "y">>, <<"y", "x", "z">>}
MCFollowings ==
    {[from |-> "u", to |-> "a"], [from |-> "v", to |-> "a"], [from |-> "u", to |-> "b"]}

(* Notifications: filters that let everything of the table pass, and ones  *)
(* that do not.                                                            *)
Filter(t, ch, k) == [tables |-> t, changes |-> ch, columns |-> k]
MCFilters ==
    {Filter(Unrestricted, Unrestricted, Unrestricted), Filter({"t"}, Unrestricted, {"k"}),
     Filter(Unrestricted, {"Insert"}, Unrestricted), Filter({"u"}, Unrestricted, Unrestricted)}
MCEventFilters ==
    {[kinds |-> Unrestricted, tables |-> {"t"}], [kinds |-> {"Delete"}, tables |-> Unrestricted]}

----------------------------------------------------------------------------
VARIABLE part

rest_vars == <<social_vars, notify_vars>>
all_vars == <<part, vars, wire_vars, access_vars, frame_vars, proc_vars, rest_vars>>

Parts == {"door", "wire", "scan", "poll", "policy", "frames", "procedures", "search", "fanout", "notify"}

MCInit ==
    /\ Init /\ WireInit /\ AccessInit /\ FramesInit /\ ProceduresInit /\ SocialInit /\ NotificationsInit
    /\ part \in Parts

\* Connections of the scan part only write whole batches, so that a scan meets
\* every order of changes without the steps of single requests.
AccessPart ==
    \/ part = "scan" /\ (HandshakeNext \/ AtomicNext \/ ScanNext)
    \/ part = "poll" /\ (SessionNext \/ HandshakeNext \/ AtomicNext \/ WriteNext \/ ReadNext \/ PollNext)
    \/ part = "policy" /\ PolicyNext

\* Posts are searched without followers, and fanned out, two of them, without words.
SocialPart ==
    \/ part = "search" /\ (PostNext \/ Restart \/ \E p \in Posts : DeletePost(p))
    \/ part = "fanout" /\ (install_fanout \/ FollowNext \/ FanNext \/ Restart)
    \/ part = "fanout" /\ so_count.posts < 2 /\ \E a0 \in Authors : InsertPost(1, a0, <<>>)
    \/ part = "fanout" /\ FinishPost(1)

DoorStep == part = "door" /\ Next /\ UNCHANGED <<wire_vars, access_vars, frame_vars, proc_vars, rest_vars>>
WireStep == part = "wire" /\ WireNext /\ UNCHANGED <<vars, access_vars, frame_vars, proc_vars, rest_vars>>
AccessStep == AccessPart /\ UNCHANGED <<vars, wire_vars, frame_vars, proc_vars, rest_vars>>
FrameStep == part = "frames" /\ FramesNext /\ UNCHANGED <<vars, wire_vars, access_vars, proc_vars, rest_vars>>
ProcStep ==
    part = "procedures" /\ ProceduresNext /\ UNCHANGED <<vars, wire_vars, access_vars, frame_vars, rest_vars>>
SocialStep == SocialPart /\ UNCHANGED <<vars, wire_vars, access_vars, frame_vars, proc_vars, notify_vars>>
NotifyStep ==
    part = "notify" /\ NotificationsNext
      /\ UNCHANGED <<vars, wire_vars, access_vars, frame_vars, proc_vars, social_vars>>

MCNext ==
    /\ DoorStep \/ WireStep \/ AccessStep \/ FrameStep \/ ProcStep \/ SocialStep \/ NotifyStep
    /\ UNCHANGED part

MCSpec == MCInit /\ [][MCNext]_all_vars

\* Procedures alone.
ProcInit == MCInit /\ part = "procedures"
ProcSpec == ProcInit /\ [][ProcStep /\ UNCHANGED part]_all_vars
===============================================================================
