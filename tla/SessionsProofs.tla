--------------------------- MODULE SessionsProofs ---------------------------
(***************************************************************************)
(* A session is safe for any number of pairs and of requests at once and   *)
(* for any of the faults: while nothing goes wrong the pair on the screen  *)
(* is the one in memory, on disk and at the router; and a sign-out, once   *)
(* complete, leaves nothing a later launch could restore.                  *)
(***************************************************************************)
EXTENDS Sessions, TLAPS

Rows   == {"none", "live", "revoked"}
Asked  == [at : {"free", "asked", "validated", "revoked", "issued", "refused"},
           old : Pairs, new : Pairs]
Writes == [pair : Pairs, by : {"refresh", "signin", "signout"}]
Tasks  == [at : {"idle", "loggingout", "clearing", "deleting",
                 "hydrating", "restoring", "landing"}, active : Pairs]
Odds   == FaultKinds \union {"overlap", "native"}
Ends   == {"app", "native"}

\* TypeOK, with the writes under way a sequence.
TypeInv ==
    /\ row \in [Tokens -> Rows]
    /\ expired \subseteq Tokens
    /\ req \in [Requests -> Asked]
    /\ flight \in [Ends -> Requests \union {NoReq}]
    /\ cache \in Pairs /\ disk \in Pairs /\ screen \in Pairs /\ prefs \in Pairs
    /\ writes \in Seq(Writes)
    /\ up \in {"off", "headless", "open"}
    /\ task \in Tasks
    /\ service \in BOOLEAN /\ out \in BOOLEAN
    /\ odd \subseteq Odds

\* Signing out: the write that deletes the pair is the last one under way, and
\* what has been deleted stays so.
Leaving == {"loggingout", "clearing", "deleting"}

OneSignOut ==
    \A i, j \in DOMAIN writes : writes[i].by = "signout" /\ writes[j].by = "signout" => i = j

OutInv ==
    /\ task.at \in Leaving => up = "open"
    /\ Storing("signout") => task.at = "deleting"
    /\ OneSignOut
    /\ "overlap" \notin odd =>
        /\ task.at = "deleting" =>
               /\ cache = No /\ flight["app"] = NoReq
               /\ writes # <<>> /\ Last(writes) = [pair |-> No, by |-> "signout"]
        /\ out => /\ cache = No /\ disk = No /\ screen = No
                  /\ writes = <<>> /\ flight["app"] = NoReq
                  /\ task.at \in {"idle", "hydrating", "landing"} /\ task.active = No

\* The app as it was installed.
Blank == cache = No /\ disk = No /\ screen = No /\ writes = <<>> /\ flight["app"] = NoReq

Running == flight["app"] # NoReq
Now     == req[flight["app"]]
\* Its row is revoked, and the pair that replaces it is on its way.
Spent(t) == Running /\ Now.at \in {"revoked", "issued"} /\ Now.old = t

\* The app has one request out, and is its only owner.
Alone ==
    /\ flight["native"] = NoReq
    /\ \A q \in Requests : req[q] # Free => flight["app"] = q
    /\ Running => Now.at # "free"

\* Nothing is stored before the first sign-in, and a smooth life has one start.
OneLife ==
    /\ up # "open" => Blank /\ task = AtHome
    /\ task.at \in {"hydrating", "landing"} => Blank /\ task.active = No
    /\ task.at # "restoring"
    /\ task.at = "deleting" => cache = No /\ ~Running

\* The pair in memory is the router's, unless a sign-out has just revoked it or
\* the pair that replaces it is on its way.
Backed ==
    cache # No =>
        \/ row[cache] = "live" /\ task.at # "clearing"
        \/ row[cache] # "live" /\ task.at = "clearing"
        \/ Spent(cache) /\ task.at # "clearing"

\* A refresh is refused only after a sign-out has revoked its pair.
OnItsWay ==
    Running =>
        /\ Now.at = "asked" => /\ Now.old # No
                               /\ (row[Now.old] = "live") <=> (task.at # "clearing")
        /\ Now.at = "validated" => Now.old # No /\ row[Now.old] = "live"
        /\ Now.at = "issued" => Now.new # No /\ row[Now.new] = "live"
        /\ Now.at \in {"validated", "revoked", "issued"} => task.at # "clearing"
        /\ Now.at = "refused" => task.at = "clearing"

Shown == screen # No /\ writes = <<>> /\ task = AtHome => cache = screen

Smooth == Alone /\ OneLife /\ cache = OnDisk /\ Backed /\ OnItsWay /\ Shown

SessionInv == odd = {} => Smooth

IInv == TypeInv /\ OutInv /\ SessionInv

LEMMA NoWrites == <<>> \in Seq(Writes) /\ Len(<<>>) = 0
  OBVIOUS

LEMMA TypeInit == Init => TypeInv
<1> SUFFICES ASSUME Init PROVE TypeInv
  OBVIOUS
<1>1. Free \in Asked /\ AtHome \in Tasks /\ No \in Pairs
  BY DEF Free, Asked, AtHome, Tasks, Pairs
<1>2. flight \in [Ends -> Requests \union {NoReq}]
  BY DEF Init, Ends
<1>3. writes \in Seq(Writes)
  BY DEF Init
<1> QED BY <1>1, <1>2, <1>3 DEF Init, TypeInv, Rows

\* SecureStore's queue: writes join at the end and leave at the front.
LEMMA WriteTyped ==
    ASSUME TypeInv, NEW t \in Pairs, NEW by \in {"refresh", "signin", "signout"}, Write(t, by)
    PROVE  /\ writes' \in Seq(Writes) /\ Len(writes') = Len(writes) + 1
           /\ writes' # <<>> /\ Last(writes') = [pair |-> t, by |-> by]
           /\ \A i \in 1..Len(writes) : writes'[i] = writes[i]
           /\ writes'[Len(writes')] = [pair |-> t, by |-> by]
           /\ Last(writes').pair = t
<1>1. [pair |-> t, by |-> by] \in Writes /\ [pair |-> t, by |-> by].pair = t
  BY DEF Writes
<1> QED BY <1>1 DEF Write, TypeInv, Last

LEMMA HeadTyped ==
    ASSUME TypeInv, writes # <<>>, writes' = Tail(writes)
    PROVE  /\ writes' \in Seq(Writes) /\ Len(writes') = Len(writes) - 1
           /\ Head(writes) \in Writes /\ Head(writes) = writes[1]
           /\ \A i \in 1..Len(writes') : writes'[i] = writes[i + 1]
           /\ writes' # <<>> => Last(writes') = Last(writes)
           /\ writes' = <<>> => Last(writes) = Head(writes) /\ Len(writes) = 1
<1>1. writes \in Seq(Writes) /\ Len(writes) \in Nat \ {0}
  BY DEF TypeInv
<1>2. /\ writes' \in Seq(Writes) /\ Len(writes') = Len(writes) - 1
      /\ \A i \in 1..Len(writes') : writes'[i] = writes[i + 1]
  BY <1>1
<1>3. Head(writes) \in Writes /\ Head(writes) = writes[1]
  BY <1>1
<1>4. CASE writes' # <<>>
  <2>1. Len(writes') \in 1..Len(writes')
    BY <1>2, <1>4
  <2> QED BY <1>1, <1>2, <1>3, <1>4, <2>1 DEF Last
<1>5. CASE writes' = <<>>
  <2>1. Len(writes') = 0
    BY <1>5, NoWrites
  <2>2. Len(writes) = 1
    BY <1>1, <1>2, <2>1
  <2> QED BY <1>1, <1>2, <1>3, <1>5, <2>2 DEF Last
<1> QED BY <1>4, <1>5

LEMMA OnDiskTyped == TypeInv => OnDisk \in Pairs /\ Stored \in Pairs
<1> SUFFICES ASSUME TypeInv PROVE OnDisk \in Pairs
  BY DEF Stored, TypeInv
<1>1. CASE writes # <<>>
  <2>1. Last(writes) \in Writes
    BY <1>1 DEF Last, TypeInv
  <2> QED BY <1>1, <2>1 DEF OnDisk, Writes
<1> QED BY <1>1 DEF OnDisk, TypeInv

LEMMA ReqTyped ==
    ASSUME TypeInv, NEW q \in Requests
    PROVE  req[q] \in Asked /\ req[q].old \in Pairs /\ req[q].new \in Pairs
  BY DEF TypeInv, Asked

LEMMA FlightTyped ==
    ASSUME TypeInv, NEW r \in Ends, flight[r] # NoReq
    PROVE  flight[r] \in Requests /\ r \in DOMAIN flight
  BY DEF TypeInv

LEMMA FreeTyped == Free \in Asked /\ AtHome \in Tasks /\ No \in Pairs
  BY DEF Free, Asked, AtHome, Tasks, Pairs

LEMMA SendTyped ==
    ASSUME TypeInv, NEW r \in Ends, NEW t \in Pairs, NEW q \in Requests, Send(r, t, q)
    PROVE  /\ req' = [req EXCEPT ![q] = [at |-> "asked", old |-> t, new |-> No]]
           /\ flight' = [flight EXCEPT ![r] = q]
           /\ req' \in [Requests -> Asked] /\ flight' \in [Ends -> Requests \union {NoReq}]
<1>1. [at |-> "asked", old |-> t, new |-> No] \in Asked
  BY DEF Asked, Pairs
<1> QED BY <1>1 DEF Send, TypeInv

LEMMA HangUpTyped ==
    ASSUME TypeInv, NEW r \in Ends, flight[r] # NoReq, HangUp(r)
    PROVE  req' \in [Requests -> Asked] /\ flight' \in [Ends -> Requests \union {NoReq}]
  BY FreeTyped, FlightTyped DEF HangUp, TypeInv

\* What the router does to the rows and its own requests.
LEMMA RouterTyped ==
    ASSUME TypeInv, NEW q \in Requests, Router(q)
    PROVE  TypeInv'
<1>1. CASE Validate(q)
  <2>1. ASSUME NEW at \in {"validated", "refused"}
        PROVE  [req[q] EXCEPT !.at = at] \in Asked
    BY ReqTyped DEF Asked
  <2>2. req' \in [Requests -> Asked]
    BY <1>1, <2>1 DEF Validate, TypeInv
  <2> QED BY <1>1, <2>2 DEF Validate, TypeInv, server, native
<1>2. CASE RevokeOld(q)
  <2>1. [req[q] EXCEPT !.at = "revoked"] \in Asked
    BY ReqTyped DEF Asked
  <2>2. req' \in [Requests -> Asked] /\ row' \in [Tokens -> Rows]
    BY <1>2, <2>1 DEF RevokeOld, TypeInv, Rows
  <2> QED BY <1>2, <2>2 DEF RevokeOld, TypeInv, native
<1>3. CASE IssueNew(q)
  <2>1. [req[q] EXCEPT !.at = "issued", !.new = NextToken] \in Asked
    BY <1>3, ReqTyped DEF IssueNew, Asked, Pairs
  <2>2. req' = [req EXCEPT ![q] = [req[q] EXCEPT !.at = "issued", !.new = NextToken]]
    BY <1>3 DEF IssueNew, TypeInv
  <2>3. req' \in [Requests -> Asked] /\ row' \in [Tokens -> Rows]
    BY <1>3, <2>1, <2>2 DEF IssueNew, TypeInv, Rows
  <2> QED BY <1>3, <2>3 DEF IssueNew, TypeInv, native
<1>4. CASE Unheard(q)
  BY <1>4, FreeTyped DEF Unheard, TypeInv, server, native
<1> QED BY <1>1, <1>2, <1>3, <1>4 DEF Router

LEMMA RevokeAllTyped ==
    ASSUME TypeInv, RevokeAll
    PROVE  TypeInv'
<1>1. row' \in [Tokens -> Rows]
  BY DEF RevokeAll, TypeInv, Rows
<1> QED BY <1>1 DEF RevokeAll, TypeInv, native, Odds, FaultKinds

\* The app's side of a refresh.
LEMMA RefreshTyped ==
    ASSUME TypeInv, NEW q \in Requests, Refresh(q)
    PROVE  TypeInv'
<1>1. req' \in [Requests -> Asked] /\ flight' \in [Ends -> Requests \union {NoReq}]
  BY SendTyped, OnDiskTyped DEF Refresh, Ends
<1> QED BY <1>1 DEF Refresh, TypeInv, server, native

LEMMA TakeTyped ==
    ASSUME TypeInv, TakeNewPair \/ TakeRefusal
    PROVE  TypeInv'
<1>1. flight["app"] # NoReq /\ "app" \in Ends
  BY DEF TakeNewPair, TakeRefusal, Heard, Ends
<1>2. req' \in [Requests -> Asked] /\ flight' \in [Ends -> Requests \union {NoReq}]
  BY <1>1, HangUpTyped DEF TakeNewPair, TakeRefusal
<1>3. CASE TakeNewPair
  <2> DEFINE new == req[flight["app"]].new
  <2>1. new \in Pairs
    BY <1>1, FlightTyped, ReqTyped
  <2>2. cache' = new /\ Write(new, "refresh")
    BY <1>3 DEF TakeNewPair
  <2>3. writes' \in Seq(Writes)
    BY <2>1, <2>2, WriteTyped
  <2>4. task' \in Tasks
    BY <1>3, <2>1 DEF TakeNewPair, TypeInv, Tasks
  <2> QED BY <1>2, <1>3, <2>1, <2>2, <2>3, <2>4 DEF TakeNewPair, TypeInv, server, native
<1>4. CASE TakeRefusal
  <2>1. writes' \in Seq(Writes)
    BY <1>4, FreeTyped, WriteTyped DEF TakeRefusal
  <2> QED BY <1>2, <1>4, <2>1, FreeTyped DEF TakeRefusal, TypeInv, server, native
<1> QED BY <1>3, <1>4

LEMMA GoOnTyped == TypeInv => GoOn \in Tasks
  BY DEF GoOn, TypeInv, Tasks

LEMMA GiveUpTyped ==
    ASSUME TypeInv, NEW r \in Ends, GiveUp(r)
    PROVE  TypeInv'
<1>1. task' \in Tasks
  BY GoOnTyped DEF GiveUp, TypeInv
<1>2. flight' \in [Ends -> Requests \union {NoReq}]
  BY DEF GiveUp, TypeInv
<1> QED BY <1>1, <1>2 DEF GiveUp, TypeInv, server, native, Odds, FaultKinds

LEMMA WriteDoneTyped ==
    ASSUME TypeInv, WriteDone
    PROVE  TypeInv'
<1>1. writes' \in Seq(Writes) /\ Head(writes) \in Writes
  BY HeadTyped DEF WriteDone
<1>2. disk' \in Pairs
  BY <1>1 DEF WriteDone, Writes
<1>3. screen' \in Pairs /\ prefs' \in Pairs
  BY FreeTyped DEF WriteDone, native, TypeInv
<1>4. service' \in BOOLEAN
  BY FaultsAssumption DEF WriteDone, native, TypeInv
<1>5. task' \in Tasks
  BY GoOnTyped, FreeTyped DEF WriteDone, TypeInv
<1>6. out' \in BOOLEAN
  BY DEF WriteDone, TypeInv
<1> QED BY <1>1, <1>2, <1>3, <1>4, <1>5, <1>6 DEF WriteDone, TypeInv, server

\* Signing in and out.
LEMMA SignTyped ==
    ASSUME TypeInv, \/ SignIn \/ SignOut \/ Clear
                    \/ \E arrives \in BOOLEAN : LogOut(arrives)
    PROVE  TypeInv'
<1>1. CASE SignIn
  <2>1. NextToken \in Pairs /\ row' \in [Tokens -> Rows]
    BY <1>1 DEF SignIn, Pairs, TypeInv, Rows
  <2>2. writes' \in Seq(Writes)
    BY <1>1, <2>1, WriteTyped DEF SignIn
  <2> QED BY <1>1, <2>1, <2>2 DEF SignIn, TypeInv, native
<1>2. CASE SignOut
  BY <1>2, FreeTyped DEF SignOut, TypeInv, server, Tasks
<1>3. ASSUME NEW arrives \in BOOLEAN, LogOut(arrives) PROVE TypeInv'
  <2>1. row' \in [Tokens -> Rows]
    BY <1>3 DEF LogOut, TypeInv, Rows
  <2>2. odd' \subseteq Odds
    BY <1>3 DEF LogOut, Overlap, TypeInv, Odds, FaultKinds
  <2>3. task' \in Tasks
    BY <1>3 DEF LogOut, TypeInv, Tasks
  <2> QED BY <1>3, <2>1, <2>2, <2>3 DEF LogOut, TypeInv, native
<1>4. CASE Clear
  <2>1. writes' \in Seq(Writes)
    BY <1>4, FreeTyped, WriteTyped DEF Clear
  <2>2. odd' \subseteq Odds
    BY <1>4 DEF Clear, Overlap, TypeInv, Odds, FaultKinds
  <2>3. task' \in Tasks
    BY <1>4 DEF Clear, TypeInv, Tasks
  <2> QED BY <1>4, <2>1, <2>2, <2>3, FreeTyped DEF Clear, TypeInv, server, native
<1> QED BY <1>1, <1>2, <1>3, <1>4

LEMMA ReadDiskTyped ==
    ASSUME TypeInv, NEW allowed \in BOOLEAN, ReadDisk(allowed)
    PROVE  cache' \in Pairs /\ task' \in Tasks
  BY FreeTyped DEF ReadDisk, TypeInv, Tasks

\* Starting the app, and the end of it.
LEMMA BootTyped ==
    ASSUME TypeInv, Wake \/ Open \/ Boot \/ Kill
    PROVE  TypeInv'
<1>1. CASE Wake
  BY <1>1 DEF Wake, TypeInv, server, native
<1>2. CASE Open
  BY <1>2 DEF Open, TypeInv, server, native, Tasks, AtHome, Pairs
<1>3. ASSUME NEW q \in Requests, Restore(q) PROVE TypeInv'
  <2>1. cache' \in Pairs /\ task' \in Tasks
    BY <1>3, ReadDiskTyped DEF Restore
  <2>2. req' \in [Requests -> Asked] /\ flight' \in [Ends -> Requests \union {NoReq}]
    BY <1>3, SendTyped DEF Restore, Ends, TypeInv
  <2> QED BY <1>3, <2>1, <2>2 DEF Restore, ReadDisk, TypeInv, server, native
<1>4. ASSUME NEW allowed \in BOOLEAN, Hydrate(allowed) PROVE TypeInv'
  <2>1. cache' \in Pairs /\ task' \in Tasks
    BY <1>4, ReadDiskTyped DEF Hydrate
  <2> QED BY <1>4, <2>1 DEF Hydrate, ReadDisk, TypeInv, server, native
<1>5. CASE Land
  <2>1. screen' \in Pairs /\ prefs' \in Pairs /\ service' \in BOOLEAN
    BY <1>5, FaultsAssumption DEF Land, TypeInv, Tasks, native
  <2> QED BY <1>5, <2>1, FreeTyped DEF Land, TypeInv, server
<1>6. CASE Kill
  <2>1. flight' \in [Ends -> Requests \union {NoReq}] /\ writes' \in Seq(Writes)
    BY <1>6, NoWrites DEF Kill, TypeInv
  <2>2. odd' \subseteq Odds
    BY <1>6 DEF Kill, TypeInv, Odds, FaultKinds
  <2> QED BY <1>6, <2>1, <2>2, FreeTyped DEF Kill, TypeInv, server, native
<1> QED BY <1>1, <1>2, <1>3, <1>4, <1>5, <1>6 DEF Boot

\* The native service.
LEMMA NativeTyped ==
    ASSUME TypeInv, NativeHears \/ \E q \in Requests : NativeRefresh(q)
    PROVE  TypeInv'
<1>1. CASE NativeHears
  <2>1. flight["native"] # NoReq /\ "native" \in Ends
    BY <1>1 DEF NativeHears, Ends
  <2>2. req' \in [Requests -> Asked] /\ flight' \in [Ends -> Requests \union {NoReq}]
    BY <1>1, <2>1, HangUpTyped DEF NativeHears
  <2>3. prefs' \in Pairs
    BY <1>1, <2>1, FlightTyped, ReqTyped DEF NativeHears, TypeInv
  <2> QED BY <1>1, <2>2, <2>3 DEF NativeHears, TypeInv, server
<1>2. ASSUME NEW q \in Requests, NativeRefresh(q) PROVE TypeInv'
  <2>1. req' \in [Requests -> Asked] /\ flight' \in [Ends -> Requests \union {NoReq}]
    BY <1>2, SendTyped DEF NativeRefresh, Ends, TypeInv
  <2> QED BY <1>2, <2>1 DEF NativeRefresh, TypeInv, server, native, Odds
<1> QED BY <1>1, <1>2

LEMMA TypeStep == TypeInv /\ [Next]_vars => TypeInv'
<1> SUFFICES ASSUME TypeInv, [Next]_vars PROVE TypeInv'
  OBVIOUS
<1>1. ASSUME NEW t \in Tokens, Expire(t) PROVE TypeInv'
  BY <1>1 DEF Expire, TypeInv, native
<1>2. CASE UNCHANGED vars
  BY <1>2 DEF vars, TypeInv
<1>3. DOMAIN flight = Ends
  BY DEF TypeInv
<1> QED BY <1>1, <1>2, <1>3, RouterTyped, RefreshTyped, RevokeAllTyped, TakeTyped, GiveUpTyped,
           WriteDoneTyped, SignTyped, BootTyped, NativeTyped
        DEF Next

-----------------------------------------------------------------------------
(* Signing out *)

LEMMA WriteStores ==
    ASSUME TypeInv, NEW t \in Pairs, NEW by \in {"refresh", "signin", "signout"}, Write(t, by),
           NEW b
    PROVE  Storing(b)' <=> Storing(b) \/ b = by
<1>1. writes \in Seq(Writes) /\ Len(writes) \in Nat
  BY DEF TypeInv
<1>2. writes' \in Seq(Writes)
  BY WriteTyped
<1>3. DOMAIN writes = 1..Len(writes) /\ DOMAIN writes' = 1..Len(writes')
  BY <1>1, <1>2
<1>4. /\ Len(writes') = Len(writes) + 1
      /\ \A i \in 1..Len(writes) : writes'[i] = writes[i]
      /\ writes'[Len(writes')] = [pair |-> t, by |-> by]
  BY WriteTyped
<1>5. Storing(b)' <=> \E i \in 1..Len(writes') : writes'[i].by = b
  BY <1>3 DEF Storing
<1>6. Storing(b) <=> \E i \in 1..Len(writes) : writes[i].by = b
  BY <1>3 DEF Storing
<1> QED BY <1>1, <1>4, <1>5, <1>6

LEMMA TailStores ==
    ASSUME TypeInv, writes # <<>>, writes' = Tail(writes), NEW b, Storing(b)'
    PROVE  Storing(b)
<1>1. writes \in Seq(Writes) /\ writes' \in Seq(Writes) /\ Len(writes) \in Nat
      /\ Len(writes') = Len(writes) - 1
      /\ \A i \in 1..Len(writes') : writes'[i] = writes[i + 1]
  BY HeadTyped DEF TypeInv
<1>2. PICK i \in 1..Len(writes') : writes'[i].by = b
  BY <1>1 DEF Storing
<1>3. i + 1 \in 1..Len(writes) /\ writes[i + 1].by = b
  BY <1>1, <1>2
<1> QED BY <1>1, <1>3 DEF Storing

LEMMA NothingStored ==
    ASSUME NEW b, writes = <<>>
    PROVE  ~Storing(b) /\ OneSignOut
<1>1. DOMAIN writes = 1..0
  BY NoWrites
<1> QED BY <1>1 DEF Storing, OneSignOut

\* There is one sign-out to be written at a time, and it leaves once.
LEMMA WriteKeepsOne ==
    ASSUME TypeInv, OneSignOut, NEW t \in Pairs, NEW by \in {"refresh", "signin", "signout"},
           Write(t, by), by = "signout" => ~Storing("signout")
    PROVE  OneSignOut'
<1>0. writes \in Seq(Writes) /\ Len(writes) \in Nat
  BY DEF TypeInv
<1>1. writes' \in Seq(Writes) /\ Len(writes') = Len(writes) + 1
  BY WriteTyped
<1>2. DOMAIN writes = 1..Len(writes) /\ DOMAIN writes' = 1..(Len(writes) + 1)
  BY <1>0, <1>1
<1>3. /\ \A i \in 1..Len(writes) : writes'[i] = writes[i]
      /\ writes'[Len(writes) + 1] = [pair |-> t, by |-> by]
  BY <1>1, WriteTyped
<1> SUFFICES ASSUME NEW i \in 1..(Len(writes) + 1), NEW j \in 1..(Len(writes) + 1),
                    writes'[i].by = "signout", writes'[j].by = "signout"
             PROVE  i = j
  BY <1>2 DEF OneSignOut
<1>4. CASE by = "signout"
  <2>1. \A k \in 1..Len(writes) : writes'[k].by # "signout"
    BY <1>2, <1>3, <1>4 DEF Storing
  <2> QED BY <1>0, <2>1
<1>5. CASE by # "signout"
  <2>1. writes'[Len(writes) + 1].by # "signout"
    BY <1>3, <1>5
  <2> QED BY <1>0, <1>2, <1>3, <2>1 DEF OneSignOut
<1> QED BY <1>4, <1>5

LEMMA TailKeepsOne ==
    ASSUME TypeInv, OneSignOut, writes # <<>>, writes' = Tail(writes)
    PROVE  OneSignOut' /\ (Head(writes).by = "signout" => ~Storing("signout")')
<1>1. writes \in Seq(Writes) /\ writes' \in Seq(Writes) /\ Len(writes) \in Nat
      /\ Len(writes') = Len(writes) - 1 /\ Head(writes) = writes[1]
      /\ \A i \in 1..Len(writes') : writes'[i] = writes[i + 1]
  BY HeadTyped DEF TypeInv
<1>2. DOMAIN writes = 1..Len(writes) /\ DOMAIN writes' = 1..(Len(writes) - 1)
  BY <1>1
<1>3. OneSignOut'
  <2> SUFFICES ASSUME NEW i \in 1..(Len(writes) - 1), NEW j \in 1..(Len(writes) - 1),
                      writes[i + 1].by = "signout", writes[j + 1].by = "signout"
               PROVE  i = j
    BY <1>1, <1>2 DEF OneSignOut
  <2>1. i + 1 \in DOMAIN writes /\ j + 1 \in DOMAIN writes
    BY <1>1, <1>2
  <2>2. i + 1 = j + 1
    BY <2>1 DEF OneSignOut
  <2> QED BY <1>1, <2>2
<1>4. ASSUME Head(writes).by = "signout", Storing("signout")' PROVE FALSE
  <2>1. PICK i \in 1..(Len(writes) - 1) : writes'[i].by = "signout"
    BY <1>2, <1>4 DEF Storing
  <2>2. i + 1 \in DOMAIN writes /\ 1 \in DOMAIN writes /\ i + 1 # 1
        /\ writes[i + 1].by = "signout" /\ writes[1].by = "signout"
    BY <1>1, <1>2, <1>4, <2>1
  <2> QED BY <2>2 DEF OneSignOut
<1> QED BY <1>3, <1>4

LEMMA OutInit == Init => OutInv
<1> SUFFICES ASSUME Init PROVE OutInv
  OBVIOUS
<1>1. ~Storing("signout") /\ OneSignOut
  BY NothingStored DEF Init
<1> QED BY <1>1 DEF Init, OutInv, Leaving, AtHome

\* The steps that leave the store, the screen and the tasks alone.
LEMMA OutUntouched ==
    ASSUME OutInv, UNCHANGED <<cache, disk, writes, screen, up, task, out>>,
           flight'["app"] = flight["app"] \/ flight'["app"] = NoReq, odd \subseteq odd'
    PROVE  OutInv'
  BY DEF OutInv, Storing, OneSignOut, Leaving, Last

LEMMA OutStep ==
    ASSUME TypeInv, OutInv, [Next]_vars
    PROVE  OutInv'
<1> USE FreeTyped
<1>1. ASSUME NEW q \in Requests, Router(q) PROVE OutInv'
  BY <1>1, OutUntouched DEF Router, Validate, RevokeOld, IssueNew, Unheard
<1>2. ASSUME NEW q \in Requests, Refresh(q) PROVE OutInv'
  <2>1. "overlap" \notin odd => task.at # "deleting" /\ ~out
    BY <1>2 DEF Refresh, Stored, OnDisk, OutInv, Refreshing
  <2>2. UNCHANGED <<cache, disk, writes, screen, up, task, out, odd>>
    BY <1>2 DEF Refresh
  <2> QED BY <2>1, <2>2 DEF OutInv, Storing, OneSignOut
<1>3. CASE TakeNewPair \/ TakeRefusal
  <2>1. flight["app"] # NoReq /\ "app" \in Ends
    BY <1>3 DEF TakeNewPair, TakeRefusal, Heard, Ends
  <2>2. "overlap" \notin odd => task.at # "deleting" /\ ~out
    BY <2>1 DEF OutInv
  <2>3. UNCHANGED <<up, out, odd>> /\ task'.at = task.at
    BY <1>3 DEF TakeNewPair, TakeRefusal, TypeInv, Tasks
  <2>4. PICK t \in Pairs : Write(t, "refresh")
    BY <1>3, <2>1, FlightTyped, ReqTyped DEF TakeNewPair, TakeRefusal
  <2>5. (Storing("signout")' => Storing("signout")) /\ OneSignOut'
    BY <2>4, WriteStores, WriteKeepsOne DEF OutInv
  <2> QED BY <2>2, <2>3, <2>5 DEF OutInv
<1>4. CASE WriteDone
  <2>1. writes # <<>> /\ writes' = Tail(writes)
    BY <1>4 DEF WriteDone
  <2>2. (Storing("signout")' => Storing("signout")) /\ OneSignOut'
    BY <2>1, TailStores, TailKeepsOne DEF OutInv
  <2>3. UNCHANGED <<cache, flight, up, odd>>
    BY <1>4 DEF WriteDone
  <2>4. writes \in Seq(Writes) /\ Len(writes) \in Nat \ {0}
    BY <2>1 DEF TypeInv
  <2>5. CASE Head(writes).by = "signout"
    <3>1. Storing("signout") /\ task.at = "deleting" /\ up = "open"
      BY <2>4, <2>5 DEF Storing, OutInv, Leaving
    <3>2. task' = AtHome /\ out' /\ screen' = No /\ disk' = Head(writes).pair
      BY <1>4, <2>5, <3>1 DEF WriteDone
    <3>3. ASSUME "overlap" \notin odd
          PROVE  Head(writes).pair = No /\ writes' = <<>>
      <4>1. Last(writes) = [pair |-> No, by |-> "signout"]
        BY <3>1, <3>3 DEF OutInv
      <4>2. 1 \in DOMAIN writes /\ Len(writes) \in DOMAIN writes /\ Head(writes) = writes[1]
        BY <2>4
      <4>3. Len(writes) = 1
        <5>1. writes[1].by = "signout" /\ writes[Len(writes)].by = "signout"
          BY <2>5, <4>1, <4>2 DEF Last
        <5>2. OneSignOut
          BY DEF OutInv
        <5> QED BY <4>2, <5>1, <5>2 DEF OneSignOut
      <4>4. Last(writes) = Head(writes)
        BY <4>2, <4>3 DEF Last
      <4>5. writes' = <<>>
        BY <2>1, <2>4, <4>3
      <4> QED BY <4>1, <4>4, <4>5
    <3>4. ~Storing("signout")'
      BY <2>1, <2>5, TailKeepsOne DEF OutInv
    <3>5. "overlap" \notin odd => cache = No /\ flight["app"] = NoReq
      BY <3>1 DEF OutInv
    <3> QED BY <2>2, <2>3, <3>1, <3>2, <3>3, <3>4, <3>5 DEF OutInv, AtHome, Leaving
  <2>6. CASE Head(writes).by # "signout"
    <3>1. task'.at = task.at \/ (task.at = "restoring" /\ task'.at = "landing")
      BY <1>4, <2>6 DEF WriteDone, GoOn, TypeInv, Tasks
    <3>2. out' = out
      BY <1>4, <2>6 DEF WriteDone, TypeInv
    <3>3. "overlap" \notin odd => ~out
      BY <2>1 DEF OutInv
    <3>4. ASSUME "overlap" \notin odd, task.at = "deleting"
          PROVE  writes' # <<>> /\ Last(writes') = [pair |-> No, by |-> "signout"]
      <4>1. Last(writes) = [pair |-> No, by |-> "signout"]
        BY <3>4 DEF OutInv
      <4>2. writes' # <<>>
        BY <2>1, <2>6, <4>1, HeadTyped
      <4>3. Last(writes') = Last(writes)
        BY <2>1, <4>2, HeadTyped
      <4> QED BY <4>1, <4>2, <4>3
    <3> QED BY <2>2, <2>3, <3>1, <3>2, <3>3, <3>4 DEF OutInv, Leaving
  <2> QED BY <2>5, <2>6
<1>5. ASSUME NEW r \in Ends, GiveUp(r) PROVE OutInv'
  <2>1. task'.at = task.at \/ (task.at = "restoring" /\ task'.at = "landing")
    BY <1>5 DEF GiveUp, GoOn, TypeInv, Tasks
  <2>2. flight'["app"] = flight["app"] \/ flight'["app"] = NoReq
    BY <1>5 DEF GiveUp, TypeInv, Ends
  <2>3. task.at # "restoring" => task' = task
    BY <1>5 DEF GiveUp, GoOn
  <2>4. UNCHANGED <<cache, disk, writes, screen, up, out>> /\ odd \subseteq odd'
    BY <1>5 DEF GiveUp
  <2> QED BY <2>1, <2>2, <2>3, <2>4 DEF OutInv, Storing, OneSignOut, Leaving, Last
<1>6. CASE SignIn
  <2>1. NextToken \in Pairs /\ Write(NextToken, "signin")
    BY <1>6 DEF SignIn, Pairs
  <2>2. (Storing("signout")' => Storing("signout")) /\ OneSignOut'
    BY <2>1, WriteStores, WriteKeepsOne DEF OutInv
  <2> QED BY <1>6, <2>2 DEF SignIn, OutInv, AtHome, Leaving
<1>7. CASE SignOut
  <2>1. task'.at = "loggingout" /\ up = "open" /\ task.at = "idle" /\ screen # No
    BY <1>7 DEF SignOut, AtHome
  <2>2. UNCHANGED <<writes, up, out, odd>>
    BY <1>7 DEF SignOut
  <2> QED BY <2>1, <2>2 DEF OutInv, Storing, OneSignOut, Leaving
<1>8. ASSUME NEW arrives \in BOOLEAN, LogOut(arrives) PROVE OutInv'
  <2>1. task'.at = "clearing" /\ task.at = "loggingout"
    BY <1>8 DEF LogOut, TypeInv, Tasks
  <2>2. UNCHANGED <<cache, disk, screen, flight, writes, up, out>> /\ odd \subseteq odd'
    BY <1>8 DEF LogOut
  <2> QED BY <2>1, <2>2 DEF OutInv, Storing, OneSignOut, Leaving
<1>9. CASE Clear
  <2>1. task'.at = "deleting" /\ task.at = "clearing" /\ up = "open" /\ up' = up /\ out' = out
    BY <1>9 DEF Clear, TypeInv, Tasks, OutInv, Leaving
  <2>2. cache' = No /\ Write(No, "signout") /\ odd \subseteq odd' /\ flight' = flight
    BY <1>9 DEF Clear
  <2>3. "overlap" \notin odd' => flight["app"] = NoReq
    BY <1>9 DEF Clear, Overlap, Refreshing
  <2>4. writes' # <<>> /\ Last(writes') = [pair |-> No, by |-> "signout"]
    BY <2>2, WriteTyped
  <2>5. ~Storing("signout") /\ OneSignOut
    BY <2>1 DEF OutInv
  <2>6. OneSignOut'
    BY <2>2, <2>5, WriteKeepsOne
  <2> QED BY <2>1, <2>2, <2>3, <2>4, <2>6 DEF OutInv, Leaving
<1>10. CASE Wake \/ Open
  <2>1. task.at \notin Leaving
    BY <1>10 DEF Wake, Open, OutInv
  <2>2. ~Storing("signout")
    BY <2>1 DEF OutInv, Leaving
  <2>3. UNCHANGED <<cache, disk, screen, flight, writes, out, odd>>
    BY <1>10 DEF Wake, Open
  <2>4. task' = task \/ (task'.at = "hydrating" /\ task'.active = No)
    BY <1>10 DEF Wake, Open, AtHome
  <2> QED BY <2>1, <2>2, <2>3, <2>4 DEF OutInv, Storing, OneSignOut, Leaving
<1>11. ASSUME NEW allowed \in BOOLEAN, ReadDisk(allowed),
              flight'["app"] = flight["app"] \/ disk # No
       PROVE  OutInv'
  <2>1. /\ task'.at \in {"restoring", "landing"} /\ task.at = "hydrating" /\ cache' = disk
        /\ disk = No => task'.at = "landing" /\ task'.active = No
    BY <1>11 DEF ReadDisk
  <2>2. UNCHANGED <<disk, writes, screen, up, out, odd>>
    BY <1>11 DEF ReadDisk
  <2>3. ~Storing("signout")
    BY <2>1 DEF OutInv
  <2> QED BY <1>11, <2>1, <2>2, <2>3 DEF OutInv, Storing, OneSignOut, Leaving
<1>12. CASE Boot
  <2>1. ASSUME NEW q \in Requests, Restore(q) PROVE OutInv'
    BY <2>1, <1>11 DEF Restore
  <2>2. ASSUME NEW allowed \in BOOLEAN, Hydrate(allowed) PROVE OutInv'
    BY <2>2, <1>11 DEF Hydrate
  <2>3. CASE Land
    <3>1. task.at = "landing" /\ task'.at = "idle" /\ task'.active = No /\ screen' = task.active
      BY <2>3 DEF Land, AtHome
    <3>2. UNCHANGED <<cache, disk, writes, flight, up, out, odd>>
      BY <2>3 DEF Land
    <3> QED BY <3>1, <3>2 DEF OutInv, Storing, OneSignOut, Leaving
  <2> QED BY <1>12, <2>1, <2>2, <2>3 DEF Boot
<1>13. CASE Kill
  <2>1. cache' = No /\ screen' = No /\ writes' = <<>> /\ task' = AtHome /\ UNCHANGED <<disk, out>>
        /\ flight'["app"] = NoReq /\ odd \subseteq odd'
    BY <1>13 DEF Kill, TypeInv, Ends
  <2>2. ~Storing("signout")' /\ OneSignOut'
    BY <2>1, NoWrites DEF Storing, OneSignOut
  <2> QED BY <2>1, <2>2 DEF OutInv, AtHome, Leaving
<1>14. CASE NativeHears \/ \E q \in Requests : NativeRefresh(q)
  <2>1. flight'["app"] = flight["app"]
    BY <1>14 DEF NativeHears, NativeRefresh, HangUp, Send, TypeInv, Ends
  <2> QED BY <1>14, <2>1, OutUntouched DEF NativeHears, NativeRefresh
<1>15. ASSUME NEW t \in Tokens, Expire(t) PROVE OutInv'
  BY <1>15, OutUntouched DEF Expire
<1>16. CASE RevokeAll
  BY <1>16, OutUntouched DEF RevokeAll
<1>17. CASE UNCHANGED vars
  BY <1>17, OutUntouched DEF vars
<1>18. DOMAIN flight = Ends
  BY DEF TypeInv
<1> QED BY <1>1, <1>2, <1>3, <1>4, <1>5, <1>6, <1>7, <1>8, <1>9, <1>10, <1>12, <1>13, <1>14,
           <1>15, <1>16, <1>17, <1>18 DEF Next

-----------------------------------------------------------------------------
(* While nothing goes wrong *)

LEMMA OddGrows ==
    ASSUME [Next]_vars
    PROVE  odd \subseteq odd'
  BY DEF Next, vars, Router, Validate, RevokeOld, IssueNew, Unheard, Refresh, NativeRefresh, Expire,
         RevokeAll, TakeNewPair, TakeRefusal, WriteDone, NativeHears, GiveUp, SignIn, SignOut, Clear,
         LogOut, Wake, Open, Boot, Restore, Hydrate, ReadDisk, Land, Kill

LEMMA SmoothInit == Init => Smooth
<1> SUFFICES ASSUME Init PROVE Smooth
  OBVIOUS
<1> QED BY DEF Init, Smooth, Alone, OneLife, Backed, OnItsWay, Shown, Blank, Running, OnDisk, AtHome

LEMMA RunningTyped ==
    ASSUME TypeInv, Running
    PROVE  /\ flight["app"] \in Requests /\ Now \in Asked /\ Now = req[flight["app"]]
           /\ Now.old \in Pairs /\ Now.new \in Pairs
           /\ Now.old # No => Now.old \in Tokens
  BY FlightTyped, ReqTyped DEF Running, Now, Ends, Pairs, TypeInv

\* The router serves the one request there is.
LEMMA SmoothRouter ==
    ASSUME TypeInv, Smooth, NEW q \in Requests, Router(q)
    PROVE  Smooth'
<1>1. req[q] # Free /\ Running /\ flight["app"] = q /\ Now = req[q]
  <2>1. req[q] # Free
    BY DEF Router, Validate, RevokeOld, IssueNew, Unheard, Free
  <2> QED BY <2>1, FaultsAssumption DEF Smooth, Alone, Running, Now, NoReq
<1>2. ~Unheard(q)
  BY <1>1 DEF Unheard, TypeInv, Ends
<1>3. UNCHANGED <<flight, cache, disk, writes, screen, up, task, native, out, odd>>
  BY <1>2 DEF Router, Validate, RevokeOld, IssueNew
<1>4. OneLife' /\ (cache = OnDisk)' /\ Shown'
  BY <1>3 DEF Smooth, OneLife, Blank, Running, Shown, OnDisk
<1>5. \A p \in Requests \ {q} : req'[p] = req[p]
  BY <1>2 DEF Router, Validate, RevokeOld, IssueNew, TypeInv
<1>6. Now' = req'[q] /\ Running'
  BY <1>1, <1>3 DEF Now, Running
<1>7. flight'["native"] = NoReq /\ \A p \in Requests : req'[p] # Free => flight'["app"] = p
  BY <1>1, <1>3, <1>5 DEF Smooth, Alone
<1>8. q \in Requests /\ req[q] \in Asked /\ req[q].old \in Pairs
  BY ReqTyped
<1>9. CASE Validate(q)
  <2> DEFINE at == IF row[req[q].old] = "live" THEN "validated" ELSE "refused"
  <2>1. req'[q] = [req[q] EXCEPT !.at = at] /\ row' = row /\ req[q].at = "asked"
    BY <1>9 DEF Validate, server, TypeInv
  <2>2. req'[q].at = at /\ req'[q].old = req[q].old /\ req'[q].new = req[q].new
    BY <1>8, <2>1 DEF Asked
  <2>3. OnItsWay'
    BY <1>1, <1>3, <1>6, <2>1, <2>2 DEF Smooth, OnItsWay
  <2>4. Backed'
    BY <1>1, <1>3, <1>6, <2>1, <2>2 DEF Smooth, Backed, Spent
  <2>5. Alone'
    BY <1>6, <1>7, <2>2 DEF Alone
  <2> QED BY <1>4, <2>3, <2>4, <2>5 DEF Smooth
<1>10. CASE RevokeOld(q)
  <2>1. /\ req'[q] = [req[q] EXCEPT !.at = "revoked"] /\ req[q].at = "validated"
        /\ row' = [row EXCEPT ![req[q].old] = "revoked"]
    BY <1>10 DEF RevokeOld, TypeInv
  <2>2. req'[q].at = "revoked" /\ req'[q].old = req[q].old
    BY <1>8, <2>1 DEF Asked
  <2>3. task.at # "clearing" /\ UNCHANGED task
    BY <1>1, <1>3, <2>1 DEF Smooth, OnItsWay
  <2>4. OnItsWay'
    BY <1>6, <2>2, <2>3 DEF OnItsWay
  <2>5. cache = req[q].old => Spent(cache)'
    BY <1>3, <1>6, <2>2 DEF Spent
  <2>6. cache # req[q].old /\ cache # No => row'[cache] = row[cache]
    BY <2>1 DEF TypeInv, Pairs
  <2>7. ~Spent(cache)
    BY <1>1, <2>1 DEF Spent
  <2>8. Backed'
    BY <1>3, <2>3, <2>5, <2>6, <2>7 DEF Smooth, Backed
  <2>9. Alone'
    BY <1>6, <1>7, <2>2 DEF Alone
  <2> QED BY <1>4, <2>4, <2>8, <2>9 DEF Smooth
<1>11. CASE IssueNew(q)
  <2>1. /\ req'[q] = [req[q] EXCEPT !.at = "issued", !.new = NextToken] /\ req[q].at = "revoked"
        /\ row' = [row EXCEPT ![NextToken] = "live"] /\ NextToken \in Tokens
    BY <1>11 DEF IssueNew, TypeInv
  <2>2. req'[q].at = "issued" /\ req'[q].old = req[q].old /\ req'[q].new = NextToken
    BY <1>8, <2>1 DEF Asked
  <2>3. task.at # "clearing" /\ UNCHANGED task
    BY <1>1, <1>3, <2>1 DEF Smooth, OnItsWay
  <2>4. NextToken # No
    BY <2>1 DEF Tokens, No
  <2>5. OnItsWay'
    BY <1>6, <2>1, <2>2, <2>3, <2>4 DEF OnItsWay, TypeInv
  <2>6. row[cache] = "live" /\ cache # No => row'[cache] = "live"
    BY <2>1 DEF TypeInv, Pairs
  <2>7. Spent(cache) => Spent(cache)'
    BY <1>1, <1>3, <1>6, <2>2 DEF Spent
  <2>8. Backed'
    BY <1>3, <2>3, <2>6, <2>7 DEF Smooth, Backed
  <2>9. Alone'
    BY <1>6, <1>7, <2>2 DEF Alone
  <2> QED BY <1>4, <2>5, <2>8, <2>9 DEF Smooth
<1> QED BY <1>2, <1>9, <1>10, <1>11 DEF Router

\* A refresh is asked for with the pair in memory.
LEMMA SmoothRefresh ==
    ASSUME TypeInv, Smooth, NEW q \in Requests, Refresh(q)
    PROVE  Smooth'
<1>1. ~Running /\ cache # No /\ Stored = cache
  BY DEF Refresh, Refreshing, Running, Smooth, Stored
<1>2. UNCHANGED <<row, cache, disk, writes, screen, up, task, out, odd>>
  BY DEF Refresh, server
<1>3. /\ req' = [req EXCEPT ![q] = [at |-> "asked", old |-> cache, new |-> No]]
      /\ flight' = [flight EXCEPT !["app"] = q]
  BY <1>1 DEF Refresh, Send
<1>4. /\ flight'["app"] = q /\ flight'["native"] = flight["native"]
      /\ req'[q].at = "asked" /\ req'[q].old = cache
      /\ \A p \in Requests \ {q} : req'[p] = req[p]
  BY <1>3 DEF TypeInv, Ends
<1>5. Running' /\ Now' = req'[q]
  BY <1>4, FaultsAssumption DEF Running, Now, NoReq
<1>6. \A p \in Requests : req[p] = Free
  BY <1>1, FaultsAssumption DEF Smooth, Alone, Running, NoReq
<1>7. Alone'
  BY <1>4, <1>5, <1>6 DEF Alone, Smooth
<1>8. up = "open" /\ task.at \notin {"hydrating", "landing", "deleting"}
  BY <1>1 DEF Smooth, OneLife, Blank
<1>9. OneLife'
  BY <1>2, <1>8 DEF Smooth, OneLife
<1>10. (row[cache] = "live") <=> (task.at # "clearing")
  BY <1>1 DEF Smooth, Backed, Spent
<1>11. Backed' /\ OnItsWay'
  BY <1>1, <1>2, <1>4, <1>5, <1>10 DEF Backed, OnItsWay
<1>12. Shown' /\ (cache = OnDisk)'
  BY <1>2 DEF Smooth, Shown, OnDisk
<1> QED BY <1>7, <1>9, <1>11, <1>12 DEF Smooth

\* The answer is stored in memory and, behind what is under way, on disk.
LEMMA SmoothTake ==
    ASSUME TypeInv, Smooth, TakeNewPair \/ TakeRefusal
    PROVE  Smooth'
<1>1. Running /\ "app" \in Ends /\ flight["app"] \in Requests
  BY RunningTyped DEF TakeNewPair, TakeRefusal, Heard, Running, Ends
<1>2. UNCHANGED <<row, screen, up>>
  BY DEF TakeNewPair, TakeRefusal, server
<1>3. up = "open" /\ task.at \notin {"hydrating", "landing", "restoring", "deleting"}
  BY <1>1 DEF Smooth, OneLife, Blank, Running
<1>4. task' = task
  BY <1>3 DEF TakeNewPair, TakeRefusal
<1>5. flight' = [flight EXCEPT !["app"] = NoReq] /\ req' = [req EXCEPT ![flight["app"]] = Free]
  BY DEF TakeNewPair, TakeRefusal, HangUp
<1>6. flight'["app"] = NoReq /\ flight'["native"] = flight["native"] /\ ~Running'
  BY <1>5 DEF TypeInv, Ends, Running
<1>7. \A p \in Requests : req'[p] = Free
  BY <1>1, <1>5 DEF TypeInv, Smooth, Alone
<1>8. Alone' /\ OnItsWay'
  BY <1>6, <1>7 DEF Alone, OnItsWay, Smooth
<1>9. OneLife'
  BY <1>2, <1>3, <1>4 DEF OneLife
<1>10. PICK t \in Pairs : cache' = t /\ Write(t, "refresh")
  BY FreeTyped, RunningTyped, <1>1 DEF TakeNewPair, TakeRefusal, Now
<1>11. writes' # <<>> /\ Last(writes').pair = cache'
  BY <1>10, WriteTyped
<1>12. (cache = OnDisk)' /\ Shown'
  BY <1>11 DEF OnDisk, Shown
<1>13. Backed'
  <2>1. CASE TakeNewPair
    <3>1. Now.at = "issued" /\ cache' = Now.new
      BY <2>1 DEF TakeNewPair, Heard, Now
    <3> QED BY <1>1, <1>2, <1>4, <3>1 DEF Smooth, OnItsWay, Backed
  <2>2. CASE TakeRefusal
    BY <2>2 DEF TakeRefusal, Backed
  <2> QED BY <2>1, <2>2
<1> QED BY <1>8, <1>9, <1>12, <1>13 DEF Smooth

LEMMA SmoothWriteDone ==
    ASSUME TypeInv, OutInv, Smooth, WriteDone
    PROVE  Smooth'
<1>1. writes # <<>> /\ writes' = Tail(writes) /\ disk' = Head(writes).pair
  BY DEF WriteDone
<1>2. UNCHANGED <<row, req, flight, cache, up>>
  BY DEF WriteDone, server
<1>3. up = "open" /\ task.at \notin {"hydrating", "landing", "restoring"}
  BY <1>1 DEF Smooth, OneLife, Blank
<1>4. (cache = OnDisk)'
  BY <1>1, <1>2, HeadTyped DEF Smooth, OnDisk
<1>5. Alone'
  BY <1>2 DEF Smooth, Alone, Running, Now
<1>6. CASE Head(writes).by = "signout"
  <2>1. writes \in Seq(Writes) /\ Len(writes) \in Nat \ {0}
    BY <1>1 DEF TypeInv
  <2>2. task.at = "deleting"
    BY <1>6, <2>1 DEF OutInv, Storing
  <2>3. task' = AtHome /\ screen' = No /\ cache = No /\ ~Running
    BY <1>3, <1>6, <2>2 DEF WriteDone, Smooth, OneLife
  <2> QED BY <1>2, <1>3, <1>4, <1>5, <2>3
          DEF Smooth, OneLife, Backed, OnItsWay, Shown, Running, AtHome
<1>7. CASE Head(writes).by # "signout"
  <2>1. task' = task /\ screen' = cache
    BY <1>3, <1>7 DEF WriteDone, GoOn
  <2>2. OneLife'
    BY <1>2, <1>3, <2>1 DEF Smooth, OneLife, Running
  <2>3. Backed' /\ OnItsWay' /\ Shown'
    BY <1>2, <2>1 DEF Smooth, Backed, OnItsWay, Shown, Running, Now, Spent
  <2> QED BY <1>4, <1>5, <2>2, <2>3 DEF Smooth
<1> QED BY <1>6, <1>7

LEMMA SmoothSignIn ==
    ASSUME TypeInv, Smooth, SignIn
    PROVE  Smooth'
<1>1. NextToken \in Tokens /\ NextToken \in Pairs /\ NextToken # No
  BY DEF SignIn, Pairs, Tokens, No
<1>2. cache' = NextToken /\ Write(NextToken, "signin") /\ row' = [row EXCEPT ![NextToken] = "live"]
  BY DEF SignIn
<1>3. writes' # <<>> /\ Last(writes').pair = cache'
  BY <1>1, <1>2, WriteTyped
<1>4. (cache = OnDisk)' /\ Shown'
  BY <1>3 DEF OnDisk, Shown
<1>5. UNCHANGED <<req, flight, up, task>> /\ up = "open" /\ task.at = "idle"
  BY DEF SignIn, AtHome
<1>6. Alone' /\ OneLife'
  BY <1>5 DEF Smooth, Alone, OneLife, Running, Now
<1>7. \A t \in Tokens : row[t] = "live" => row'[t] = "live"
  BY <1>2 DEF TypeInv
<1>8. row'[NextToken] = "live"
  BY <1>1, <1>2 DEF TypeInv
<1>9. Backed'
  BY <1>2, <1>5, <1>8 DEF Backed
<1>10. OnItsWay'
  <2>1. CASE Running
    BY <1>5, <1>7, <2>1, RunningTyped DEF Smooth, OnItsWay, Running, Now, Pairs
  <2>2. CASE ~Running
    BY <1>5, <2>2 DEF OnItsWay, Running
  <2> QED BY <2>1, <2>2
<1> QED BY <1>4, <1>6, <1>9, <1>10 DEF Smooth

\* Nothing wrong: no refresh is under way as the router and the store are told.
LEMMA SmoothSignOut ==
    ASSUME TypeInv, OutInv, Smooth, odd' = {},
           \/ SignOut \/ Clear \/ \E arrives \in BOOLEAN : LogOut(arrives)
    PROVE  Smooth'
<1>1. CASE SignOut
  <2>1. task'.at = "loggingout" /\ task.at = "idle" /\ up = "open"
    BY <1>1 DEF SignOut, AtHome
  <2>2. UNCHANGED <<row, req, flight, cache, disk, writes, screen, up>> /\ task' # AtHome
    BY <1>1, <2>1 DEF SignOut, server, AtHome
  <2> QED BY <2>1, <2>2 DEF Smooth, Alone, OneLife, Backed, OnItsWay, Shown, Running, Now, Spent, OnDisk
<1>2. ASSUME NEW arrives \in BOOLEAN, LogOut(arrives) PROVE Smooth'
  <2>1. ~Running /\ arrives
    BY <1>2 DEF LogOut, Overlap, Refreshing, Running
  <2>2. task.at = "loggingout" /\ task'.at = "clearing" /\ up = "open"
    BY <1>2 DEF LogOut, OutInv, Leaving, TypeInv, Tasks
  <2>3. UNCHANGED <<req, flight, cache, disk, writes, screen, up>> /\ task' # AtHome
    BY <1>2, <2>2 DEF LogOut, AtHome
  <2>4. cache # No => row'[cache] # "live"
    BY <1>2, <2>1 DEF LogOut, TypeInv, Pairs
  <2> QED BY <2>1, <2>2, <2>3, <2>4
          DEF Smooth, Alone, OneLife, Backed, OnItsWay, Shown, Running, OnDisk
<1>3. CASE Clear
  <2>1. ~Running /\ cache' = No /\ Write(No, "signout")
    BY <1>3 DEF Clear, Overlap, Refreshing, Running
  <2>2. task.at = "clearing" /\ task'.at = "deleting" /\ up = "open"
    BY <1>3 DEF Clear, OutInv, Leaving, TypeInv, Tasks
  <2>3. UNCHANGED <<req, flight, disk, screen, up>> /\ task' # AtHome
    BY <1>3, <2>2 DEF Clear, AtHome
  <2>4. writes' # <<>> /\ Last(writes').pair = No
    BY <2>1, FreeTyped, WriteTyped
  <2> QED BY <2>1, <2>2, <2>3, <2>4
          DEF Smooth, Alone, OneLife, Backed, OnItsWay, Shown, Running, OnDisk
<1> QED BY <1>1, <1>2, <1>3

LEMMA SmoothBoot ==
    ASSUME TypeInv, Smooth, Wake \/ Open \/ Boot
    PROVE  Smooth'
<1>1. CASE Wake
  BY <1>1 DEF Wake, Smooth, OneLife, Blank
<1>2. CASE Open
  <2>1. Blank /\ up' = "open" /\ task'.at = "hydrating" /\ task'.active = No /\ task' # AtHome
    BY <1>2 DEF Open, Smooth, OneLife, AtHome
  <2>2. UNCHANGED <<row, req, flight, cache, disk, writes, screen>>
    BY <1>2 DEF Open, server
  <2> QED BY <2>1, <2>2
          DEF Smooth, Alone, OneLife, Backed, OnItsWay, Shown, Running, Now, Spent, OnDisk, Blank
<1>3. ASSUME NEW q \in Requests, Restore(q) PROVE Smooth'
  BY <1>3 DEF Restore, ReadDisk, Smooth, OneLife, Blank
<1>4. ASSUME NEW allowed \in BOOLEAN, Hydrate(allowed) PROVE Smooth'
  <2>1. Blank /\ up = "open"
    BY <1>4 DEF Hydrate, ReadDisk, Smooth, OneLife, AtHome
  <2>2. cache' = No /\ task'.at = "landing" /\ task'.active = No /\ task' # AtHome
    BY <1>4, <2>1 DEF Hydrate, ReadDisk, Blank, AtHome
  <2>3. UNCHANGED <<row, req, flight, disk, writes, screen, up>>
    BY <1>4 DEF Hydrate, ReadDisk, server
  <2> QED BY <2>1, <2>2, <2>3
          DEF Smooth, Alone, OneLife, Backed, OnItsWay, Shown, Running, Now, Spent, OnDisk, Blank
<1>5. CASE Land
  <2>1. Blank /\ screen' = No /\ task' = AtHome /\ up = "open"
    BY <1>5 DEF Land, Smooth, OneLife, AtHome
  <2>2. UNCHANGED <<row, req, flight, cache, disk, writes, up>>
    BY <1>5 DEF Land, server
  <2> QED BY <2>1, <2>2
          DEF Smooth, Alone, OneLife, Backed, OnItsWay, Shown, Running, Now, Spent, OnDisk, Blank, AtHome
<1> QED BY <1>1, <1>2, <1>3, <1>4, <1>5 DEF Boot

LEMMA SessionStep ==
    ASSUME TypeInv, OutInv, SessionInv, [Next]_vars
    PROVE  SessionInv'
<1> SUFFICES ASSUME odd' = {} PROVE Smooth'
  BY DEF SessionInv
<1>0. odd = {} /\ Smooth
  BY OddGrows DEF SessionInv
<1>1. ASSUME NEW t \in Tokens, Expire(t) PROVE Smooth'
  BY <1>0, <1>1 DEF Expire, Smooth, Alone, OneLife, Backed, OnItsWay, Shown, Running, Now, Spent, OnDisk, Blank
<1>2. CASE UNCHANGED vars
  BY <1>0, <1>2 DEF vars, Smooth, Alone, OneLife, Backed, OnItsWay, Shown, Running, Now, Spent, OnDisk, Blank
<1>3. /\ ~RevokeAll /\ ~Kill /\ (\A r \in DOMAIN flight : ~GiveUp(r))
      /\ \A q \in Requests : ~NativeRefresh(q)
  BY DEF RevokeAll, Kill, GiveUp, NativeRefresh
<1>4. ~NativeHears
  BY <1>0 DEF NativeHears, Smooth, Alone
<1> QED BY <1>0, <1>1, <1>2, <1>3, <1>4, SmoothRouter, SmoothRefresh, SmoothTake, SmoothWriteDone,
           SmoothSignIn, SmoothSignOut, SmoothBoot
        DEF Next

-----------------------------------------------------------------------------
(* The theorems *)

LEMMA Inductive == Spec => []IInv
<1>1. Init => IInv
  BY TypeInit, OutInit, SmoothInit DEF IInv, SessionInv
<1>2. IInv /\ [Next]_vars => IInv'
  BY TypeStep, OutStep, SessionStep DEF IInv
<1> QED BY <1>1, <1>2, PTL DEF Spec

\* The token store, SecureStore's queue and the router's rows stay well typed.
THEOREM SessionsTyped == Spec => []TypeInv
  BY Inductive, PTL DEF IInv

\* tokenStore and authController.refresh: whatever refreshes, sign-ins and
\* sign-outs there were, a driver who sees the app signed in is signed in.
THEOREM SessionsSurvive == Spec => []SessionSurvives
<1>1. TypeInv /\ SessionInv => SessionSurvives
  <2> SUFFICES ASSUME TypeInv, SessionInv, odd = {}, screen # No, Quiet
               PROVE  cache = screen /\ disk = screen /\ row[screen] = "live"
    BY DEF SessionSurvives
  <2>1. Smooth /\ task.at = "idle"
    BY DEF SessionInv, Quiet, AtHome
  <2>2. cache = screen /\ disk = screen
    BY <2>1 DEF Smooth, Shown, OnDisk, Quiet
  <2>3. ~Running
    BY RunningTyped, <2>1 DEF Quiet, Free, Smooth, Alone
  <2> QED BY <2>1, <2>2, <2>3 DEF Smooth, Backed, Spent
<1> QED BY <1>1, Inductive, PTL DEF IInv

\* signOut: with lost answers, kills, revocations and the native service's own
\* refreshes, what it deleted does not come back.
THEOREM SignOutStays == Spec => []SignedOutStays
<1>1. OutInv => SignedOutStays
  BY DEF OutInv, SignedOutStays
<1> QED BY <1>1, Inductive, PTL DEF IInv
=============================================================================
