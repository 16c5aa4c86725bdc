-------------------------- MODULE RegistrationProofs ---------------------------
(***************************************************************************)
(* What a registration and the work around it never get wrong, for every   *)
(* number of attempts, enrolments, keys and tasks.  Three components with  *)
(* no variable in common, one part each.                                   *)
(*                                                                         *)
(* SignupFlow: the boundary and its marker are set before the address is   *)
(* posted, on every path that posts it; each session of the protocol is    *)
(* paid for by an attempt or by a proxy switch.                            *)
(* AccountSetup: every job starts from the saved credentials, the only     *)
(* other secret it can meet is one it asked for while the account had no   *)
(* factor, and each automatic continuation spends a budget.                *)
(* SmsOrders: a task that counts in in_flight names the state it counts    *)
(* in, or one that was replaced; a number has one task; and every step of  *)
(* a task leaves a number it pays for with somebody who knows of it, but   *)
(* for the crash and the unusable activation the property names.           *)
(***************************************************************************)
EXTENDS SignupFlow, AccountSetup, SmsOrders, FiniteSetTheorems, TLAPS

--------------------------------------------------------------------------------
\* The protocol sign-up.
\* Where the address has not been handed over yet.
Before == {"bootstrap", "prelude", "oauth", "confirm"}

\* The address is posted behind the boundary and the marker, both set once.
PostInv ==
  /\ site.posts \in {0, 1}
  /\ site.posts = 1 => flow.boundary /\ signup.marker
  /\ flow.at \in Before => ~flow.boundary
  /\ flow.at = "post" => site.posts = 0 /\ flow.boundary /\ signup.marker
  /\ signup.row = "available" => ~signup.marker

\* Every attempt and every switch pays for a session and its rebuild.
SessionInv ==
  signup.sessions + (IF flow.rebuilt THEN 0 ELSE 1) <= 2 * (1 + signup.attempt + signup.switches)

\* The pages and the resends are below their limits when they are counted.
CountInv ==
  /\ flow.at \in {"send", "wait", "resend", "verify"} => flow.pages < PageLimit
  /\ flow.at = "resend" => flow.used < ResendLimit

SignupInv == SignupTypeOK /\ PostInv /\ SessionInv /\ CountInv

-------------------------------------------------------------------------------
(* Setters.                                                                  *)

LEMMA FlowFields ==
  ASSUME NEW f \in Flows
  PROVE  /\ f.at \in FlowPlaces /\ f.page \in SitePages /\ f.pages \in 0..PageLimit
         /\ f.round \in 0..RoundLimit /\ f.used \in 0..ResendLimit
         /\ f.rebuilt \in BOOLEAN /\ f.boundary \in BOOLEAN /\ f.failure \in Failures
  BY DEF Flows

LEMMA SetFlowAt ==
  ASSUME NEW f \in Flows, NEW v \in FlowPlaces PROVE [f EXCEPT !.at = v] \in Flows
  BY DEF Flows
LEMMA SetFlowPage ==
  ASSUME NEW f \in Flows, NEW v \in SitePages PROVE [f EXCEPT !.page = v] \in Flows
  BY DEF Flows
LEMMA SetFlowPages ==
  ASSUME NEW f \in Flows, NEW v \in 0..PageLimit PROVE [f EXCEPT !.pages = v] \in Flows
  BY DEF Flows
LEMMA SetFlowRound ==
  ASSUME NEW f \in Flows, NEW v \in 0..RoundLimit PROVE [f EXCEPT !.round = v] \in Flows
  BY DEF Flows
LEMMA SetFlowUsed ==
  ASSUME NEW f \in Flows, NEW v \in 0..ResendLimit PROVE [f EXCEPT !.used = v] \in Flows
  BY DEF Flows
LEMMA SetFlowFailure ==
  ASSUME NEW f \in Flows, NEW v \in Failures PROVE [f EXCEPT !.failure = v] \in Flows
  BY DEF Flows
LEMMA SetFlowFlags ==
  ASSUME NEW f \in Flows, NEW v \in BOOLEAN
  PROVE  /\ [f EXCEPT !.rebuilt = v] \in Flows
         /\ [f EXCEPT !.boundary = v] \in Flows
         /\ [f EXCEPT !.asked = v] \in Flows
         /\ [f EXCEPT !.profile = v] \in Flows
         /\ [f EXCEPT !.consent = v] \in Flows
<1>1. [f EXCEPT !.rebuilt = v] \in Flows
  BY DEF Flows
<1>2. [f EXCEPT !.boundary = v] \in Flows
  BY DEF Flows
<1>3. [f EXCEPT !.asked = v] \in Flows
  BY DEF Flows
<1>4. [f EXCEPT !.profile = v] \in Flows
  BY DEF Flows
<1>5. [f EXCEPT !.consent = v] \in Flows
  BY DEF Flows
<1> QED BY <1>1, <1>2, <1>3, <1>4, <1>5

\* A step of the flow that keeps what is behind it.
Keeps(f, g) ==
  /\ g \in Flows
  /\ g.boundary = f.boundary /\ g.rebuilt = f.rebuilt

LEMMA MovedFlow ==
  ASSUME NEW f \in Flows, NEW v \in FlowPlaces
  PROVE  LET g == [f EXCEPT !.at = v]
         IN  Keeps(f, g) /\ g.at = v /\ g.pages = f.pages /\ g.used = f.used
<1>1. [f EXCEPT !.at = v] \in Flows
  BY SetFlowAt
<1> QED BY <1>1 DEF Keeps, Flows

LEMMA FailedFlow ==
  ASSUME NEW f \in Flows, NEW x \in Failures
  PROVE  LET g == [f EXCEPT !.at = "failed", !.failure = x]
         IN  Keeps(f, g) /\ g.at = "failed" /\ g.pages = f.pages
<1> DEFINE h == [f EXCEPT !.at = "failed"]
           g == [f EXCEPT !.at = "failed", !.failure = x]
<1>1. h \in Flows
  BY SetFlowAt DEF FlowPlaces
<1>2. g = [h EXCEPT !.failure = x]
  OBVIOUS
<1>3. g \in Flows
  BY <1>1, <1>2, SetFlowFailure
<1>4. g.at = "failed" /\ g.pages = f.pages /\ g.boundary = f.boundary /\ g.rebuilt = f.rebuilt
      /\ g.used = f.used
  BY DEF Flows
<1> QED BY <1>3, <1>4 DEF Keeps

\* The page a handled one leads to is one more.
LEMMA TurnedFlow ==
  ASSUME NEW f \in Flows, f.pages < PageLimit, NEW g \in Turned(f)
  PROVE  Keeps(f, g) /\ g.at = "page"
<1>1. PICK p \in SitePages : g = [f EXCEPT !.at = "page", !.page = p, !.pages = @ + 1]
  BY DEF Turned
<1> DEFINE h == [f EXCEPT !.at = "page"]
           k == [h EXCEPT !.page = p]
<1>2. h \in Flows
  BY SetFlowAt DEF FlowPlaces
<1>3. k \in Flows
  BY <1>2, SetFlowPage
<1>4. f.pages + 1 \in 0..PageLimit
  BY FlowFields, SignupAssumption
<1>5. g = [k EXCEPT !.pages = f.pages + 1]
  BY <1>1
<1>6. g \in Flows
  BY <1>3, <1>4, <1>5, SetFlowPages
<1>7. g.at = "page" /\ g.boundary = f.boundary /\ g.rebuilt = f.rebuilt /\ g.used = f.used
  BY <1>1 DEF Flows
<1> QED BY <1>6, <1>7 DEF Keeps

LEMMA FreshFlow == /\ NewFlow \in Flows /\ NewFlow.at = "bootstrap" /\ ~NewFlow.boundary
                   /\ ~NewFlow.rebuilt /\ NewFlow.pages = 0 /\ NewFlow.used = 0
<1>1. NoFailure \in Failures
  BY DEF NoFailure, Failure, Failures, FailureNodes, FailureCodes, ProxyNodes, PreAuth
<1> QED BY <1>1, SignupAssumption DEF NewFlow, Flows, FlowPlaces, SitePages, OtpPages, PasswordPages

LEMMA FailureIsFailure ==
  ASSUME NEW node \in FailureNodes, NEW code \in FailureCodes, NEW b \in BOOLEAN
  PROVE  /\ Failure(node, code) \in Failures
         /\ [Failure(node, code) EXCEPT !.retry = b] \in Failures
         /\ [Failure(node, code) EXCEPT !.net = b] \in Failures
  BY DEF Failure, Failures

LEMMA SomeFailures ==
  /\ StopSeen \in Failures /\ NoFailure \in Failures
  /\ \A node \in FailureNodes : CallFailures(node) \subseteq Failures /\ HtmlFailures(node) \subseteq Failures
<1>1. /\ {"stop", "page", "challenge"} \subseteq FailureNodes
      /\ FailureCodes = {"limited", "invalid", "html", "denied", "failed"}
  BY DEF FailureNodes, FailureCodes
<1>2. StopSeen \in Failures /\ NoFailure \in Failures
  BY <1>1, FailureIsFailure DEF StopSeen, NoFailure
<1>3. ASSUME NEW node \in FailureNodes, NEW x \in CallFailures(node) PROVE x \in Failures
  <2>1. CASE x \in {Failure(node, "limited"), Failure(node, "failed"), Failure(node, "invalid"), Failure("challenge", "failed")}
    BY <1>1, <2>1, FailureIsFailure
  <2>2. CASE \E c \in {"denied", "invalid"} : x = [Failure(node, c) EXCEPT !.retry = TRUE]
    BY <1>1, <2>2, FailureIsFailure
  <2>3. CASE x = [Failure(node, "failed") EXCEPT !.net = TRUE]
    BY <1>1, <2>3, FailureIsFailure
  <2> QED BY <1>3, <2>1, <2>2, <2>3 DEF CallFailures
<1>4. ASSUME NEW node \in FailureNodes, NEW x \in HtmlFailures(node) PROVE x \in Failures
  BY <1>1, <1>4, FailureIsFailure DEF HtmlFailures
<1> QED BY <1>2, <1>3, <1>4

-------------------------------------------------------------------------------
(* The steps of a session.                                                   *)

\* A step of the flow behind or before the boundary that leaves the worker alone.
LEMMA InnerStep ==
  ASSUME SignupInv, UNCHANGED signup, stopAsked' \in BOOLEAN,
         site' \in [posts : Nat, hinted : BOOLEAN], site'.posts = site.posts,
         Keeps(flow, flow'), flow'.at # "post", flow'.at \in Before => ~flow.boundary,
         CountInv'
  PROVE  SignupInv'
<1>1. SignupTypeOK'
  BY DEF SignupInv, SignupTypeOK, Keeps
<1>2. PostInv'
  BY DEF SignupInv, PostInv, Keeps
<1>3. SessionInv'
  BY DEF SignupInv, SessionInv, Keeps
<1> QED BY <1>1, <1>2, <1>3 DEF SignupInv

\* A step that only moves the flow; the pages turned and the resends stay.
LEMMA FlowStep ==
  ASSUME SignupInv, UNCHANGED <<site, signup>>, stopAsked' \in BOOLEAN,
         Keeps(flow, flow'), flow'.at # "post", flow'.at \in Before => ~flow.boundary,
         CountInv'
  PROVE  SignupInv'
<1>1. site' \in [posts : Nat, hinted : BOOLEAN] /\ site'.posts = site.posts
  BY DEF SignupInv, SignupTypeOK
<1> QED BY <1>1, InnerStep

LEMMA FailStep ==
  ASSUME SignupInv, UNCHANGED <<site, signup>>, stopAsked' \in BOOLEAN,
         NEW x \in Failures, FailsWith(x)
  PROVE  SignupInv'
<1>1. flow \in Flows
  BY DEF SignupInv, SignupTypeOK
<1>2. flow' = [flow EXCEPT !.at = "failed", !.failure = x]
  BY DEF FailsWith
<1>3. Keeps(flow, flow') /\ flow'.at = "failed"
  BY <1>1, <1>2, FailedFlow
<1>4. CountInv'
  BY <1>3 DEF CountInv
<1> QED BY <1>3, <1>4, FlowStep DEF Before

\* What a step inside a session may make of the flow.
MayMoveTo(g) ==
  /\ Keeps(flow, g) /\ g.at # "post"
  /\ g.at \in Before => ~flow.boundary
  /\ g.at \in {"send", "wait", "resend", "verify"} => g.pages < PageLimit
  /\ g.at = "resend" => g.used < ResendLimit

LEMMA CallStep ==
  ASSUME SignupInv, NEW node \in FailureNodes, NEW next, SiteCall(node, next),
         \A g \in next : MayMoveTo(g)
  PROVE  SignupInv'
<1>1. UNCHANGED <<site, signup>> /\ stopAsked \in BOOLEAN
  BY DEF SiteCall, SignupInv, SignupTypeOK
<1>2. ASSUME NEW x \in Failures, FailsWith(x), stopAsked' \in BOOLEAN PROVE SignupInv'
  BY <1>1, <1>2, FailStep
<1>3. CASE stopAsked /\ FailsWith(StopSeen) /\ UNCHANGED stopAsked
  BY <1>1, <1>2, <1>3, SomeFailures
<1>4. CASE ~stopAsked /\ flow' \in next /\ UNCHANGED stopAsked
  <2>1. CountInv'
    BY <1>4 DEF CountInv, MayMoveTo
  <2> QED BY <1>1, <1>4, <2>1, FlowStep DEF MayMoveTo
<1>5. CASE \E f \in CallFailures(node) : FailsWith(f) /\ UNCHANGED stopAsked
  <2>1. PICK f \in CallFailures(node) : FailsWith(f) /\ UNCHANGED stopAsked
    BY <1>5
  <2>2. f \in Failures
    BY SomeFailures
  <2> QED BY <1>1, <1>2, <2>1, <2>2
<1>6. CASE FailsWith(StopSeen) /\ stopAsked' = TRUE
  BY <1>2, <1>6, SomeFailures
<1> QED BY <1>3, <1>4, <1>5, <1>6 DEF SiteCall

LEMMA FailsStep ==
  ASSUME SignupInv, NEW x \in Failures, Fails(x)
  PROVE  SignupInv'
  BY FailStep DEF Fails, SignupInv, SignupTypeOK

\* A step to a place where nothing is counted.
LEMMA MovesStep ==
  ASSUME SignupInv, NEW g, Moves(g), MayMoveTo(g)
  PROVE  SignupInv'
<1>1. UNCHANGED <<site, signup, stopAsked>> /\ flow' = g
  BY DEF Moves
<1>2. CountInv'
  BY <1>1 DEF CountInv, MayMoveTo
<1> QED BY <1>1, <1>2, FlowStep DEF SignupInv, SignupTypeOK, MayMoveTo

LEMMA BootstrapStep == ASSUME SignupInv, Bootstrap PROVE SignupInv'
<1>1. flow \in Flows /\ flow.at = "bootstrap" /\ ~flow.boundary
  BY DEF Bootstrap, At, SignupInv, SignupTypeOK, PostInv, Before
<1>2. CASE Moves([flow EXCEPT !.at = "prelude"])
  <2> DEFINE g == [flow EXCEPT !.at = "prelude"]
  <2>1. Keeps(flow, g) /\ g.at = "prelude"
    BY <1>1, MovedFlow DEF FlowPlaces
  <2> HIDE DEF g
  <2> QED BY <1>1, <1>2, <2>1, MovesStep DEF g, MayMoveTo
<1>3. CASE \E x \in Failures : Fails(x)
  BY <1>3, FailsStep
<1>4. /\ StopSeen \in Failures /\ Failure("challenge", "failed") \in Failures
      /\ [Failure("preflight", "denied") EXCEPT !.retry = TRUE] \in Failures
      /\ \A net \in BOOLEAN : [Failure("preflight", "failed") EXCEPT !.net = net] \in Failures
  BY SomeFailures, FailureIsFailure DEF FailureNodes, FailureCodes, ProxyNodes
<1> QED BY <1>2, <1>3, <1>4 DEF Bootstrap

LEMMA PreludeStep == ASSUME SignupInv, Prelude PROVE SignupInv'
<1>1. flow \in Flows /\ flow.at = "prelude" /\ ~flow.boundary
  BY DEF Prelude, At, SignupInv, SignupTypeOK, PostInv, Before
<1>2. CASE /\ site' = [site EXCEPT !.hinted = TRUE]
           /\ \E p \in ReadyPages : flow' = [flow EXCEPT !.at = "page", !.page = p]
           /\ UNCHANGED <<signup, stopAsked>>
  <2>1. PICK p \in SitePages : flow' = [flow EXCEPT !.at = "page", !.page = p]
    BY <1>2 DEF ReadyPages
  <2>2. [flow EXCEPT !.at = "page"] \in Flows
    BY <1>1, SetFlowAt DEF FlowPlaces
  <2>3. flow' = [[flow EXCEPT !.at = "page"] EXCEPT !.page = p]
    BY <2>1
  <2>4. flow' \in Flows
    BY <2>2, <2>3, SetFlowPage
  <2>5. Keeps(flow, flow') /\ flow'.at = "page"
    BY <1>1, <2>1, <2>4 DEF Keeps, Flows
  <2>6. site' \in [posts : Nat, hinted : BOOLEAN] /\ site'.posts = site.posts
    BY <1>2 DEF SignupInv, SignupTypeOK
  <2>7. CountInv'
    BY <2>5 DEF CountInv
  <2>8. stopAsked' \in BOOLEAN
    BY <1>2 DEF SignupInv, SignupTypeOK
  <2> QED BY <1>2, <2>5, <2>6, <2>7, <2>8, InnerStep DEF Before
<1>3. CASE Moves([flow EXCEPT !.at = "oauth"])
  <2> DEFINE g == [flow EXCEPT !.at = "oauth"]
  <2>1. Keeps(flow, g) /\ g.at = "oauth"
    BY <1>1, MovedFlow DEF FlowPlaces
  <2> HIDE DEF g
  <2> QED BY <1>1, <1>3, <2>1, MovesStep DEF g, MayMoveTo
<1>4. CASE \E x \in Failures : Fails(x)
  BY <1>4, FailsStep
<1>5. /\ StopSeen \in Failures /\ Failure("oauth", "limited") \in Failures
      /\ \A net \in BOOLEAN : [Failure("oauth", "failed") EXCEPT !.net = net] \in Failures
  BY SomeFailures, FailureIsFailure DEF FailureNodes, FailureCodes, ProxyNodes, PreAuth
<1> QED BY <1>2, <1>3, <1>4, <1>5 DEF Prelude

LEMMA OauthStep == ASSUME SignupInv, InitiateOauth PROVE SignupInv'
<1>1. flow \in Flows /\ flow.at = "oauth" /\ ~flow.boundary
  BY DEF InitiateOauth, At, SignupInv, SignupTypeOK, PostInv, Before
<1>2. "oauth" \in FailureNodes
  BY DEF FailureNodes, ProxyNodes, PreAuth
<1> DEFINE g == [flow EXCEPT !.at = "confirm"]
<1>3. Keeps(flow, g) /\ g.at = "confirm"
  BY <1>1, MovedFlow DEF FlowPlaces
<1>4. CASE SiteCall("oauth", {g})
  <2> HIDE DEF g
  <2> DEFINE next == {g}
  <2>1. \A k \in next : MayMoveTo(k)
    BY <1>1, <1>3 DEF MayMoveTo
  <2>2. SiteCall("oauth", next)
    BY <1>4
  <2> HIDE DEF next
  <2> QED BY <1>2, <2>1, <2>2, CallStep
<1>5. CASE \E f \in HtmlFailures("oauth") : Fails(f)
  BY <1>2, <1>5, SomeFailures, FailsStep
<1> QED BY <1>4, <1>5 DEF InitiateOauth

\* The marker is set before the address leaves.
LEMMA SetMarker ==
  ASSUME NEW w \in Workers, NEW b \in BOOLEAN
  PROVE  LET v == [w EXCEPT !.marker = b]
         IN  /\ v \in Workers /\ v.marker = b /\ v.row = w.row /\ v.attempt = w.attempt
             /\ v.switches = w.switches /\ v.sessions = w.sessions
  BY DEF Workers

\* A step that touches the boundary and the marker while the row is at work.
LEMMA MarkStep ==
  ASSUME SignupInv, UNCHANGED site, UNCHANGED stopAsked, signup.row = "running",
         NEW b \in BOOLEAN, signup' = [signup EXCEPT !.marker = b],
         flow' \in Flows, flow'.rebuilt = flow.rebuilt, CountInv',
         site.posts = 0, flow'.at \in Before => ~flow'.boundary,
         flow'.at = "post" => flow'.boundary /\ b
  PROVE  SignupInv'
<1>1. signup \in Workers
  BY DEF SignupInv, SignupTypeOK
<1>2. /\ signup' \in Workers /\ signup'.marker = b /\ signup'.row = signup.row
      /\ signup'.attempt = signup.attempt /\ signup'.switches = signup.switches
      /\ signup'.sessions = signup.sessions
  BY <1>1, SetMarker
<1>3. SignupTypeOK'
  BY <1>2 DEF SignupInv, SignupTypeOK
<1>4. PostInv'
  BY <1>2 DEF PostInv
<1>5. SessionInv'
  BY <1>2 DEF SignupInv, SessionInv
<1> QED BY <1>3, <1>4, <1>5 DEF SignupInv

LEMMA ConfirmStep == ASSUME SignupInv, ConfirmMailbox PROVE SignupInv'
<1>1. /\ flow \in Flows /\ flow.at = "confirm" /\ ~flow.boundary /\ signup.row = "running"
      /\ site.posts = 0 /\ signup \in Workers /\ signup.marker \in BOOLEAN
  BY DEF ConfirmMailbox, At, SignupInv, SignupTypeOK, PostInv, Before, Workers
<1>2. UNCHANGED site /\ UNCHANGED stopAsked
  BY DEF ConfirmMailbox
<1>3. CASE /\ flow' = [flow EXCEPT !.at = "post", !.boundary = TRUE]
           /\ signup' = [signup EXCEPT !.marker = TRUE]
  <2>1. [flow EXCEPT !.at = "post"] \in Flows
    BY <1>1, SetFlowAt DEF FlowPlaces
  <2>2. flow' = [[flow EXCEPT !.at = "post"] EXCEPT !.boundary = TRUE]
    BY <1>3
  <2>3. flow' \in Flows
    BY <2>1, <2>2, SetFlowFlags
  <2>4. flow'.at = "post" /\ flow'.boundary /\ flow'.rebuilt = flow.rebuilt
    BY <1>1, <1>3 DEF Flows
  <2>5. CountInv'
    BY <2>4 DEF CountInv
  <2> QED BY <1>1, <1>2, <1>3, <2>3, <2>4, <2>5, MarkStep DEF Before
<1>4. CASE /\ FailsWith(Failure("lease", "failed"))
           /\ \E wrote \in BOOLEAN : signup' = [signup EXCEPT !.marker = @ \/ wrote]
  <2>1. PICK wrote \in BOOLEAN : signup' = [signup EXCEPT !.marker = signup.marker \/ wrote]
    BY <1>4
  <2>2. Failure("lease", "failed") \in Failures
    BY FailureIsFailure DEF FailureNodes, FailureCodes
  <2>3. Keeps(flow, flow') /\ flow'.at = "failed"
    BY <1>1, <1>4, <2>2, FailedFlow DEF FailsWith
  <2>4. CountInv'
    BY <2>3 DEF CountInv
  <2>5. (signup.marker \/ wrote) \in BOOLEAN
    BY <1>1
  <2> QED BY <1>1, <1>2, <2>1, <2>3, <2>4, <2>5, MarkStep DEF Before, Keeps
<1> QED BY <1>3, <1>4 DEF ConfirmMailbox

LEMMA AbortStep == ASSUME SignupInv, AbortConfirmation PROVE SignupInv'
<1>1. /\ flow \in Flows /\ flow.at = "post" /\ signup.row = "running" /\ site.posts = 0
  BY DEF AbortConfirmation, At, SignupInv, SignupTypeOK, PostInv, Before
<1>2. PICK back \in BOOLEAN :
         /\ flow' = [flow EXCEPT !.at = "failed", !.failure = StopSeen, !.boundary = ~back]
         /\ signup' = [signup EXCEPT !.marker = ~back]
  BY DEF AbortConfirmation
<1> DEFINE g == [flow EXCEPT !.at = "failed", !.failure = StopSeen]
<1>3. g \in Flows
  BY <1>1, FailedFlow, SomeFailures DEF Keeps
<1>4. flow' = [g EXCEPT !.boundary = ~back]
  BY <1>2
<1>5. flow' \in Flows
  <2> HIDE DEF g
  <2> QED BY <1>3, <1>4, SetFlowFlags
<1>6. flow'.at = "failed" /\ flow'.rebuilt = flow.rebuilt
  BY <1>1, <1>2 DEF Flows
<1>7. CountInv'
  BY <1>6 DEF CountInv
<1>8. UNCHANGED site /\ UNCHANGED stopAsked
  BY DEF AbortConfirmation
<1>9. (~back) \in BOOLEAN
  OBVIOUS
<1> QED BY <1>1, <1>2, <1>5, <1>6, <1>7, <1>8, <1>9, MarkStep DEF Before

LEMMA PostStep == ASSUME SignupInv, PostIdentifier PROVE SignupInv'
<1>1. /\ flow \in Flows /\ flow.at = "post" /\ signup.row = "running" /\ site.posts = 0
      /\ flow.boundary /\ signup.marker /\ site \in [posts : Nat, hinted : BOOLEAN]
  BY DEF PostIdentifier, At, SignupInv, SignupTypeOK, PostInv, Before
<1>2. site' = [site EXCEPT !.posts = @ + 1] /\ UNCHANGED signup /\ stopAsked' \in BOOLEAN
  BY DEF PostIdentifier, SignupInv, SignupTypeOK
<1>3. site' \in [posts : Nat, hinted : BOOLEAN] /\ site'.posts = 1
  BY <1>1, <1>2
<1>4. Keeps(flow, flow') /\ flow'.at \in {"page", "failed"}
  <2>1. CASE \E p \in SitePages : flow' = [flow EXCEPT !.at = "page", !.page = p]
    <3>1. PICK p \in SitePages : flow' = [flow EXCEPT !.at = "page", !.page = p]
      BY <2>1
    <3>2. [flow EXCEPT !.at = "page"] \in Flows
      BY <1>1, SetFlowAt DEF FlowPlaces
    <3>3. flow' = [[flow EXCEPT !.at = "page"] EXCEPT !.page = p]
      BY <3>1
    <3>4. flow' \in Flows
      BY <3>2, <3>3, SetFlowPage
    <3> QED BY <1>1, <3>1, <3>4 DEF Keeps, Flows
  <2>2. CASE \E x \in Failures : FailsWith(x)
    <3>1. PICK x \in Failures : flow' = [flow EXCEPT !.at = "failed", !.failure = x]
      BY <2>2 DEF FailsWith
    <3> QED BY <1>1, <3>1, FailedFlow
  <2>3. "identifier" \in FailureNodes
    BY DEF FailureNodes, ProxyNodes, PreAuth
  <2>4. StopSeen \in Failures /\ CallFailures("identifier") \cup HtmlFailures("identifier") \subseteq Failures
    BY <2>3, SomeFailures
  <2> QED BY <2>1, <2>2, <2>4 DEF PostIdentifier
<1>5. SignupTypeOK'
  BY <1>2, <1>3, <1>4 DEF SignupInv, SignupTypeOK, Keeps
<1>6. PostInv'
  BY <1>1, <1>2, <1>3, <1>4 DEF PostInv, Keeps, Before
<1>7. SessionInv'
  BY <1>2, <1>4 DEF SignupInv, SessionInv, Keeps
<1>8. CountInv'
  BY <1>4 DEF CountInv
<1> QED BY <1>5, <1>6, <1>7, <1>8 DEF SignupInv

-------------------------------------------------------------------------------
(* The pages and the code.                                                   *)

\* A call that leads to another page, with something noted on the way.
LEMMA TurnStep ==
  ASSUME SignupInv, NEW node \in FailureNodes, NEW g \in Flows, Keeps(flow, g),
         g.pages < PageLimit, SiteCall(node, Turned(g))
  PROVE  SignupInv'
<1>1. ASSUME NEW k \in Turned(g) PROVE MayMoveTo(k)
  <2>1. Keeps(g, k) /\ k.at = "page"
    BY TurnedFlow
  <2> QED BY <2>1 DEF MayMoveTo, Keeps, Before
<1> QED BY <1>1, CallStep

LEMMA MoveStep ==
  ASSUME SignupInv, NEW v \in FlowPlaces \ (Before \cup {"post", "resend"}),
         Moves([flow EXCEPT !.at = v]), flow.pages < PageLimit
  PROVE  SignupInv'
<1> DEFINE g == [flow EXCEPT !.at = v]
<1>1. Keeps(flow, g) /\ g.at = v /\ g.pages = flow.pages
  BY MovedFlow DEF SignupInv, SignupTypeOK
<1>2. Moves(g)
  OBVIOUS
<1> HIDE DEF g
<1>3. MayMoveTo(g)
  BY <1>1 DEF MayMoveTo
<1> QED BY <1>2, <1>3, MovesStep

\* The first round of a code.
LEMMA RoundStep ==
  ASSUME SignupInv, NEW f \in Flows, Keeps(flow, f), f.pages = flow.pages, flow.pages < PageLimit,
         NEW v \in {"send", "wait"}, NEW n \in 0..RoundLimit,
         Moves([f EXCEPT !.at = v, !.round = n])
  PROVE  SignupInv'
<1> DEFINE h == [f EXCEPT !.at = v]
           g == [f EXCEPT !.at = v, !.round = n]
<1>1. h \in Flows
  BY SetFlowAt DEF FlowPlaces
<1>2. g = [h EXCEPT !.round = n]
  OBVIOUS
<1>3. g \in Flows
  <2> HIDE DEF h
  <2> QED BY <1>1, <1>2, SetFlowRound
<1>4. g.at = v /\ g.pages = f.pages /\ g.boundary = f.boundary /\ g.rebuilt = f.rebuilt /\ g.used = f.used
  BY DEF Flows
<1>5. Moves(g)
  OBVIOUS
<1> HIDE DEF g
<1>6. MayMoveTo(g)
  BY <1>3, <1>4 DEF MayMoveTo, Keeps, Before
<1> QED BY <1>5, <1>6, MovesStep

LEMMA PagesStep ==
  ASSUME SignupInv, TooManyPages \/ OtpPage \/ PasswordPage \/ ProfilePage \/ ConsentPage \/ LastPage
  PROVE  SignupInv'
<1>1. /\ flow \in Flows /\ 0 \in 0..RoundLimit /\ Keeps(flow, flow)
      /\ {"page", "callback", "oauth"} \subseteq FailureNodes
  BY SignupAssumption DEF SignupInv, SignupTypeOK, Keeps, FailureNodes, ProxyNodes, PreAuth
<1>2. /\ [flow EXCEPT !.asked = TRUE] \in Flows /\ Keeps(flow, [flow EXCEPT !.asked = TRUE])
      /\ [flow EXCEPT !.asked = TRUE].pages = flow.pages
  <2>1. [flow EXCEPT !.asked = TRUE] \in Flows
    BY <1>1, SetFlowFlags
  <2> QED BY <1>1, <2>1 DEF Keeps, Flows
<1>3. CASE TooManyPages
  <2>1. Failure("oauth", "failed") \in Failures
    BY <1>1, FailureIsFailure DEF FailureCodes
  <2> QED BY <1>3, <2>1, FailsStep DEF TooManyPages
<1>4. CASE OtpPage
  <2>1. PICK v \in {"send", "wait"} : Moves([flow EXCEPT !.at = v, !.round = 0])
    BY <1>4 DEF OtpPage
  <2>2. flow.pages < PageLimit
    BY <1>4 DEF OtpPage, OnPage
  <2> QED BY <1>1, <2>1, <2>2, RoundStep
<1>5. CASE PasswordPage
  <2>1. flow.pages < PageLimit
    BY <1>5 DEF PasswordPage, OnPage
  <2> DEFINE asked == [flow EXCEPT !.asked = TRUE]
  <2>2. CASE Fails(NoFailure)
    BY <2>2, FailsStep, SomeFailures
  <2>3. CASE Moves([asked EXCEPT !.at = "send", !.round = 0])
    <3>1. asked \in Flows /\ Keeps(flow, asked) /\ asked.pages = flow.pages
      BY <1>2
    <3> HIDE DEF asked
    <3> QED BY <1>1, <2>1, <2>3, <3>1, RoundStep
  <2>4. CASE SiteCall("page", Turned(asked))
    <3>1. asked \in Flows /\ Keeps(flow, asked) /\ asked.pages = flow.pages
      BY <1>2
    <3> HIDE DEF asked
    <3> QED BY <1>1, <2>1, <2>4, <3>1, TurnStep
  <2> QED BY <1>5, <2>2, <2>3, <2>4 DEF PasswordPage
<1>6. CASE ProfilePage
  <2> DEFINE g == [flow EXCEPT !.profile = TRUE]
  <2>1. g \in Flows
    BY <1>1, SetFlowFlags
  <2>2. Keeps(flow, g) /\ g.pages = flow.pages
    BY <1>1, <2>1 DEF Keeps, Flows
  <2>3. SiteCall("page", Turned(g)) /\ flow.pages < PageLimit
    BY <1>6 DEF ProfilePage, OnPage
  <2> HIDE DEF g
  <2> QED BY <1>1, <2>1, <2>2, <2>3, TurnStep
<1>7. CASE ConsentPage
  <2> DEFINE g == [flow EXCEPT !.consent = TRUE]
  <2>1. g \in Flows
    BY <1>1, SetFlowFlags
  <2>2. Keeps(flow, g) /\ g.pages = flow.pages
    BY <1>1, <2>1 DEF Keeps, Flows
  <2>3. SiteCall("callback", Turned(g)) /\ flow.pages < PageLimit
    BY <1>7 DEF ConsentPage, OnPage
  <2> HIDE DEF g
  <2> QED BY <1>1, <2>1, <2>2, <2>3, TurnStep
<1>8. CASE LastPage
  <2>1. CASE Fails(NoFailure)
    BY <2>1, FailsStep, SomeFailures
  <2>2. CASE Moves([flow EXCEPT !.at = "callback"])
    <3>1. flow.pages < PageLimit
      BY <1>8 DEF LastPage, OnPage
    <3> QED BY <2>2, <3>1, MoveStep DEF FlowPlaces, Before
  <2> QED BY <1>8, <2>1, <2>2 DEF LastPage
<1> QED BY <1>3, <1>4, <1>5, <1>6, <1>7, <1>8

LEMMA CallbackStep == ASSUME SignupInv, Callback PROVE SignupInv'
<1>1. flow \in Flows /\ "callback" \in FailureNodes
  BY DEF SignupInv, SignupTypeOK, FailureNodes
<1>2. CASE Fails(Failure("callback", "failed"))
  BY <1>1, <1>2, FailureIsFailure, FailsStep DEF FailureCodes
<1> DEFINE g == [flow EXCEPT !.at = "over"]
<1>3. CASE SiteCall("callback", {g})
  <2>1. Keeps(flow, g) /\ g.at = "over"
    BY <1>1, MovedFlow DEF FlowPlaces
  <2> HIDE DEF g
  <2> DEFINE next == {g}
  <2>2. \A k \in next : MayMoveTo(k)
    BY <2>1 DEF MayMoveTo, Before
  <2>3. SiteCall("callback", next)
    BY <1>3
  <2> HIDE DEF next
  <2> QED BY <1>1, <2>2, <2>3, CallStep
<1> QED BY <1>2, <1>3 DEF Callback

LEMMA AnotherRoundStep == ASSUME SignupInv, AnotherRound, flow.pages < PageLimit PROVE SignupInv'
<1> DEFINE v == IF flow.used < ResendLimit THEN "resend" ELSE "wait"
           h == [flow EXCEPT !.round = flow.round + 1]
           g == [h EXCEPT !.at = v]
<1>1. flow \in Flows /\ flow.round + 1 \in 0..RoundLimit
  BY FlowFields, SignupAssumption DEF SignupInv, SignupTypeOK, AnotherRound
<1>2. h \in Flows
  BY <1>1, SetFlowRound
<1>3. Keeps(flow, h) /\ h.pages = flow.pages /\ h.used = flow.used
  BY <1>1, <1>2 DEF Keeps, Flows
<1>4. Moves(g)
  BY DEF AnotherRound
<1>5. v \in FlowPlaces
  BY DEF FlowPlaces
<1> HIDE DEF h
<1>6. Keeps(h, g) /\ g.at = v /\ g.pages = h.pages /\ g.used = h.used
  BY <1>2, <1>5, MovedFlow
<1> HIDE DEF g
<1>7. MayMoveTo(g)
  BY <1>3, <1>6 DEF MayMoveTo, Keeps, Before
<1> QED BY <1>4, <1>7, MovesStep

\* A call for a code, and what follows it.
LEMMA SentStep ==
  ASSUME SignupInv, NEW g \in Flows, SiteCall("otp", {g}), g.boundary = flow.boundary,
         g.rebuilt = flow.rebuilt, g.at = "wait", g.pages = flow.pages,
         flow.pages < PageLimit
  PROVE  SignupInv'
<1> DEFINE next == {g}
<1>1. \A k \in next : MayMoveTo(k)
  BY DEF MayMoveTo, Before, Keeps
<1>2. SiteCall("otp", next) /\ "otp" \in FailureNodes
  BY DEF FailureNodes
<1> HIDE DEF next
<1> QED BY <1>1, <1>2, CallStep

LEMMA CodeStep ==
  ASSUME SignupInv, SendOtp \/ WaitOtp \/ ResendOtp \/ VerifyOtp PROVE SignupInv'
<1>1. flow \in Flows /\ flow.pages < PageLimit /\ "otp" \in FailureNodes /\ Keeps(flow, flow)
  BY DEF SignupInv, SignupTypeOK, CountInv, SendOtp, WaitOtp, ResendOtp, VerifyOtp, At, FailureNodes, Keeps
<1>2. CASE SendOtp
  <2> DEFINE g == [flow EXCEPT !.at = "wait"]
  <2>1. Keeps(flow, g) /\ g.at = "wait" /\ g.pages = flow.pages
    BY <1>1, MovedFlow DEF FlowPlaces
  <2>2. SiteCall("otp", {g})
    BY <1>2 DEF SendOtp
  <2> HIDE DEF g
  <2> QED BY <1>1, <2>1, <2>2, SentStep DEF Keeps
<1>3. CASE WaitOtp
  <2>1. CASE Fails(StopSeen) \/ Fails(Failure("otp", "failed"))
    BY <1>1, <2>1, SomeFailures, FailureIsFailure, FailsStep DEF FailureCodes
  <2>2. CASE Moves([flow EXCEPT !.at = "verify"])
    BY <1>1, <2>2, MoveStep DEF FlowPlaces, Before
  <2>3. CASE flow.used < ResendLimit /\ Moves([flow EXCEPT !.at = "resend"])
    <3> DEFINE g == [flow EXCEPT !.at = "resend"]
    <3>1. Keeps(flow, g) /\ g.at = "resend" /\ g.pages = flow.pages /\ g.used = flow.used
      BY <1>1, MovedFlow DEF FlowPlaces
    <3>2. Moves(g)
      BY <2>3
    <3> HIDE DEF g
    <3>3. MayMoveTo(g)
      BY <1>1, <2>3, <3>1 DEF MayMoveTo, Before, Keeps
    <3> QED BY <3>2, <3>3, MovesStep
  <2>4. CASE AnotherRound
    BY <1>1, <2>4, AnotherRoundStep
  <2> QED BY <1>3, <2>1, <2>2, <2>3, <2>4 DEF WaitOtp
<1>4. CASE VerifyOtp
  BY <1>1, <1>4, TurnStep, AnotherRoundStep DEF VerifyOtp
<1>5. CASE ResendOtp
  <2> DEFINE h == [flow EXCEPT !.at = "wait"]
             g == [h EXCEPT !.used = flow.used + 1]
  <2>1. h \in Flows
    BY <1>1, SetFlowAt DEF FlowPlaces
  <2>2. flow.used + 1 \in 0..ResendLimit
    BY <1>1, <1>5, FlowFields, SignupAssumption DEF SignupInv, CountInv, ResendOtp, At
  <2>3. g \in Flows
    <3> HIDE DEF h
    <3> QED BY <2>1, <2>2, SetFlowUsed
  <2>4. g.boundary = flow.boundary /\ g.rebuilt = flow.rebuilt /\ g.at = "wait" /\ g.pages = flow.pages
    BY <1>1 DEF Flows
  <2>5. SiteCall("otp", {g})
    BY <1>5 DEF ResendOtp
  <2> HIDE DEF g
  <2> QED BY <1>1, <2>3, <2>4, <2>5, SentStep
<1> QED BY <1>2, <1>3, <1>4, <1>5

-------------------------------------------------------------------------------
(* The end of a session.                                                     *)

LEMMA SetSessions ==
  ASSUME NEW w \in Workers, NEW n \in Nat
  PROVE  LET v == [w EXCEPT !.sessions = n]
         IN  /\ v \in Workers /\ v.sessions = n /\ v.marker = w.marker /\ v.row = w.row
             /\ v.attempt = w.attempt /\ v.switches = w.switches
  BY DEF Workers

LEMMA SetRow ==
  ASSUME NEW w \in Workers, NEW r \in {"running", "available", "pending_rerun", "registered"}
  PROVE  LET v == [w EXCEPT !.row = r]
         IN  /\ v \in Workers /\ v.sessions = w.sessions /\ v.marker = w.marker /\ v.row = r
             /\ v.attempt = w.attempt /\ v.switches = w.switches
  BY DEF Workers

LEMMA SetTripped ==
  ASSUME NEW w \in Workers, NEW b \in BOOLEAN
  PROVE  LET v == [w EXCEPT !.tripped = b]
         IN  /\ v \in Workers /\ v.sessions = w.sessions /\ v.marker = w.marker /\ v.row = w.row
             /\ v.attempt = w.attempt /\ v.switches = w.switches
  BY DEF Workers

LEMMA SetAttempt ==
  ASSUME NEW w \in Workers, NEW n \in 0..RetryLimit
  PROVE  LET v == [w EXCEPT !.attempt = n]
         IN  /\ v \in Workers /\ v.sessions = w.sessions /\ v.marker = w.marker /\ v.row = w.row
             /\ v.attempt = n /\ v.switches = w.switches
  BY DEF Workers

LEMMA SetSwitches ==
  ASSUME NEW w \in Workers, NEW n \in 0..SwitchLimit
  PROVE  LET v == [w EXCEPT !.switches = n]
         IN  /\ v \in Workers /\ v.sessions = w.sessions /\ v.marker = w.marker /\ v.row = w.row
             /\ v.attempt = w.attempt /\ v.switches = n
  BY DEF Workers

\* An entry of the proxy's attempts changes neither budgets nor row.
LEMMA NotedWorker ==
  ASSUME NEW w \in Workers, NEW f \in Failures, NEW switched \in BOOLEAN, signup \in Workers
  PROVE  LET v == Noted(w, f, switched)
         IN  /\ v \in Workers /\ v.sessions = w.sessions /\ v.marker = w.marker /\ v.row = w.row
             /\ v.attempt = w.attempt /\ v.switches = w.switches
<1> DEFINE e == [node |-> f.node, code |-> f.code]
           n == IF ~switched /\ signup.last = e THEN w.same + 1 ELSE 1
           u == [w EXCEPT !.last = e]
<1>1. e \in [node : FailureNodes, code : FailureCodes]
  BY DEF Failures
<1>2. n \in Nat
  BY DEF Workers
<1>3. u \in Workers /\ u.sessions = w.sessions /\ u.marker = w.marker /\ u.row = w.row
      /\ u.attempt = w.attempt /\ u.switches = w.switches
  <2> HIDE DEF e
  <2> QED BY <1>1 DEF Workers
<1>4. Noted(w, f, switched) = [u EXCEPT !.same = n]
  BY DEF Noted
<1> HIDE DEF n, u
<1>5. [u EXCEPT !.same = n] \in Workers
  BY <1>2, <1>3 DEF Workers
<1>6. LET v == [u EXCEPT !.same = n]
      IN  /\ v.sessions = u.sessions /\ v.marker = u.marker /\ v.row = u.row
          /\ v.attempt = u.attempt /\ v.switches = u.switches
  BY <1>3 DEF Workers
<1> QED BY <1>3, <1>4, <1>5, <1>6

\* A row that ends is only given back when its marker was not seen, twice.
LEMMA EndsStep ==
  ASSUME SignupInv, NEW w \in Workers, NEW f, Ends(w, f),
         w.marker = signup.marker, w.sessions = signup.sessions,
         w.attempt >= signup.attempt, w.switches >= signup.switches
  PROVE  SignupInv'
<1>1. PICK seen \in ConfirmedSeen, r \in {"available", "pending_rerun"} :
         signup' = [w EXCEPT !.row = r] /\ (r = "available" => ~seen)
  BY DEF Ends
<1>2. UNCHANGED <<site, flow, stopAsked>>
  BY DEF Ends
<1>3. /\ signup' \in Workers /\ signup'.row = r /\ signup'.marker = signup.marker
      /\ signup'.sessions = signup.sessions /\ signup'.attempt = w.attempt
      /\ signup'.switches = w.switches
  <2>1. r \in {"running", "available", "pending_rerun", "registered"}
    OBVIOUS
  <2>2. signup' = [w EXCEPT !.row = r]
    BY <1>1
  <2> QED BY <2>1, <2>2, SetRow
<1>4. r = "available" => ~signup.marker
  BY <1>1 DEF ConfirmedSeen
<1>5. SignupTypeOK' /\ CountInv'
  BY <1>2, <1>3 DEF SignupInv, SignupTypeOK, CountInv
<1>6. PostInv'
  BY <1>2, <1>3, <1>4 DEF SignupInv, PostInv
<1>7. SessionInv'
  <2>1. /\ signup.attempt \in Int /\ signup.switches \in Int /\ w.attempt \in Int /\ w.switches \in Int
        /\ signup.sessions \in Int
    BY DEF SignupInv, SignupTypeOK, Workers
  <2> QED BY <1>2, <1>3, <2>1 DEF SignupInv, SessionInv
<1> QED BY <1>5, <1>6, <1>7 DEF SignupInv

\* Another session is paid for by an attempt or a switch, and opened only when the
\* marker was not seen.
LEMMA StartsStep ==
  ASSUME SignupInv, NEW w \in Workers, StartsAgain(w), w.marker = signup.marker,
         ~signup.marker, w.sessions = signup.sessions, w.row = signup.row,
         w.attempt + w.switches = signup.attempt + signup.switches + 1
  PROVE  SignupInv'
<1>1. flow' = NewFlow /\ signup' = [w EXCEPT !.sessions = w.sessions + 1] /\ UNCHANGED <<site, stopAsked>>
  BY DEF StartsAgain
<1>2. /\ signup.attempt \in Int /\ signup.switches \in Int /\ w.attempt \in Int /\ w.switches \in Int
      /\ signup.sessions \in Nat
  BY DEF SignupInv, SignupTypeOK, Workers
<1>3. w.sessions + 1 \in Nat
  BY <1>2
<1>4. /\ signup' \in Workers /\ signup'.row = signup.row /\ ~signup'.marker
      /\ signup'.sessions = signup.sessions + 1 /\ signup'.attempt = w.attempt
      /\ signup'.switches = w.switches
  BY <1>1, <1>3, SetSessions
<1>5. /\ flow' \in Flows /\ flow'.at = "bootstrap" /\ ~flow'.boundary /\ ~flow'.rebuilt
  BY <1>1, FreshFlow
<1>6. SignupTypeOK' /\ CountInv'
  BY <1>1, <1>4, <1>5 DEF SignupInv, SignupTypeOK, CountInv
<1>7. site.posts = 0 /\ site'.posts = 0
  BY <1>1 DEF SignupInv, PostInv
<1>8. PostInv'
  BY <1>4, <1>5, <1>7 DEF SignupInv, PostInv
<1>9. SessionInv'
  BY <1>2, <1>4, <1>5 DEF SignupInv, SessionInv
<1> QED BY <1>6, <1>8, <1>9 DEF SignupInv

LEMMA ChallengedStep == ASSUME SignupInv, Challenged PROVE SignupInv'
<1>1. flow.failure \in Failures /\ signup \in Workers /\ signup.switches \in 0..SwitchLimit
      /\ signup.marker \in BOOLEAN /\ signup.attempt \in Int /\ signup.tripped \in BOOLEAN
  BY DEF SignupInv, SignupTypeOK, Flows, Workers
<1> DEFINE f == flow.failure
           w(trips) == [signup EXCEPT !.tripped = signup.tripped \/ trips]
           u(trips) == [w(trips) EXCEPT !.switches = signup.switches + 1]
<1>2. PICK trips \in BOOLEAN, seen \in ConfirmedSeen :
         \/ Ends(w(trips), f)
         \/ /\ ~seen /\ signup.switches < SwitchLimit
            /\ \E switched \in BOOLEAN :
                 IF switched THEN StartsAgain(Noted(u(trips), f, switched))
                 ELSE Ends(Noted(u(trips), f, switched), f)
  <2>1. PICK trips \in BOOLEAN, seen \in ConfirmedSeen :
           IF stopAsked \/ seen \/ signup.switches >= SwitchLimit \/ w(trips).tripped
           THEN Ends(w(trips), f)
           ELSE \E switched \in BOOLEAN :
                  IF switched THEN StartsAgain(Noted([w(trips) EXCEPT !.switches = @ + 1], f, switched))
                  ELSE Ends(Noted([w(trips) EXCEPT !.switches = @ + 1], f, switched), f)
    BY DEF Challenged
  <2>2. [w(trips) EXCEPT !.switches = @ + 1] = u(trips)
    BY <1>1 DEF Workers
  <2>3. signup.switches >= SwitchLimit \/ signup.switches < SwitchLimit
    BY <1>1, SignupAssumption
  <2> HIDE DEF w, u
  <2> QED BY <2>1, <2>2, <2>3
<1>3. (signup.tripped \/ trips) \in BOOLEAN
  BY <1>1
<1>4. /\ w(trips) \in Workers /\ w(trips).sessions = signup.sessions
      /\ w(trips).marker = signup.marker /\ w(trips).row = signup.row
      /\ w(trips).attempt = signup.attempt /\ w(trips).switches = signup.switches
  BY <1>1, <1>3, SetTripped
<1>5. CASE Ends(w(trips), f)
  <2> HIDE DEF w
  <2>1. w(trips).attempt >= signup.attempt /\ w(trips).switches >= signup.switches
    BY <1>1, <1>4
  <2> QED BY <1>4, <1>5, <2>1, EndsStep
<1>6. ASSUME ~seen, signup.switches < SwitchLimit, NEW switched \in BOOLEAN,
             IF switched THEN StartsAgain(Noted(u(trips), f, switched))
             ELSE Ends(Noted(u(trips), f, switched), f)
      PROVE  SignupInv'
  <2>1. ~signup.marker
    BY <1>6 DEF ConfirmedSeen
  <2>2. signup.switches + 1 \in 0..SwitchLimit
    BY <1>1, <1>6, SignupAssumption
  <2>3. /\ u(trips) \in Workers /\ u(trips).sessions = signup.sessions
        /\ u(trips).marker = signup.marker /\ u(trips).row = signup.row
        /\ u(trips).attempt = signup.attempt /\ u(trips).switches = signup.switches + 1
    <3> HIDE DEF w
    <3> QED BY <1>4, <2>2, SetSwitches
  <2> HIDE DEF u
  <2> DEFINE v == Noted(u(trips), f, switched)
  <2>4. /\ v \in Workers /\ v.sessions = signup.sessions /\ v.marker = signup.marker /\ v.row = signup.row
        /\ v.attempt = signup.attempt /\ v.switches = signup.switches + 1
    BY <1>1, <2>3, NotedWorker
  <2>5. StartsAgain(v) \/ Ends(v, f)
    BY <1>6
  <2> HIDE DEF v
  <2>6. /\ v.attempt >= signup.attempt /\ v.switches >= signup.switches
        /\ v.attempt + v.switches = signup.attempt + signup.switches + 1
    BY <1>1, <2>4
  <2> QED BY <2>1, <2>4, <2>5, <2>6, StartsStep, EndsStep
<1> HIDE DEF w, u, f
<1> QED BY <1>2, <1>5, <1>6

LEMMA RetriedStep == ASSUME SignupInv, Retried PROVE SignupInv'
<1>1. flow.failure \in Failures /\ signup \in Workers /\ signup.attempt \in 0..RetryLimit
      /\ signup.marker \in BOOLEAN /\ signup.switches \in Int
  BY DEF SignupInv, SignupTypeOK, Flows, Workers
<1> DEFINE f == flow.failure
           u == CountedAttempt(signup)
<1>2. CASE Ends(signup, f) \/ Ends(signup, [f EXCEPT !.retry = FALSE])
  BY <1>1, <1>2, EndsStep
<1>3. ASSUME ~signup.marker, signup.attempt < RetryLimit, NEW switched \in BOOLEAN,
             \/ StartsAgain(Noted(u, f, switched))
             \/ Ends(Noted(u, f, switched), f)
      PROVE  SignupInv'
  <2>1. signup.attempt + 1 \in 0..RetryLimit
    BY <1>1, <1>3, SignupAssumption
  <2>2. u = [signup EXCEPT !.attempt = signup.attempt + 1]
    BY DEF CountedAttempt
  <2> HIDE DEF u
  <2>3. /\ u \in Workers /\ u.sessions = signup.sessions
        /\ u.marker = signup.marker /\ u.row = signup.row
        /\ u.attempt = signup.attempt + 1 /\ u.switches = signup.switches
    BY <1>1, <2>1, <2>2, SetAttempt
  <2> DEFINE v == Noted(u, f, switched)
  <2>4. /\ v \in Workers /\ v.sessions = signup.sessions /\ v.marker = signup.marker /\ v.row = signup.row
        /\ v.attempt = signup.attempt + 1 /\ v.switches = signup.switches
    BY <1>1, <2>3, NotedWorker
  <2>5. StartsAgain(v) \/ Ends(v, f)
    BY <1>3
  <2> HIDE DEF v
  <2>6. /\ v.attempt >= signup.attempt /\ v.switches >= signup.switches
        /\ v.attempt + v.switches = signup.attempt + signup.switches + 1
    BY <1>1, <2>4
  <2> QED BY <1>3, <2>4, <2>5, <2>6, StartsStep, EndsStep
<1>4. \/ Ends(signup, f) \/ Ends(signup, [f EXCEPT !.retry = FALSE])
      \/ /\ ~signup.marker /\ signup.attempt < RetryLimit
         /\ \E switched \in BOOLEAN : \/ StartsAgain(Noted(u, f, switched))
                                     \/ Ends(Noted(u, f, switched), f)
  <2> DEFINE can(seen) == ~seen /\ f.node \in ProxyNodes /\ (f.net \/ f.retry)
  <2>1. PICK seen \in ConfirmedSeen :
           IF ~can(seen) \/ signup.attempt >= RetryLimit \/ stopAsked THEN Ends(signup, f)
           ELSE IF SameFailures(f) >= 2 THEN Ends(signup, [f EXCEPT !.retry = FALSE])
           ELSE \E switched \in BOOLEAN :
                  IF f.retry /\ ~switched THEN Ends(Noted(u, f, switched), f)
                  ELSE StartsAgain(Noted(u, f, switched))
    BY DEF Retried
  <2>2. can(seen) => ~signup.marker
    BY DEF ConfirmedSeen
  <2>3. signup.attempt >= RetryLimit \/ signup.attempt < RetryLimit
    BY <1>1, SignupAssumption
  <2> HIDE DEF can, u, f
  <2> QED BY <2>1, <2>2, <2>3
<1> HIDE DEF u, f
<1> QED BY <1>2, <1>3, <1>4

LEMMA RebuildStep == ASSUME SignupInv, RebuildSession PROVE SignupInv'
<1>1. /\ flow \in Flows /\ ~flow.rebuilt /\ ~flow.boundary /\ signup \in Workers
      /\ flow.used \in 0..ResendLimit /\ signup.sessions \in Nat
  BY DEF SignupInv, SignupTypeOK, RebuildSession, Rebuilds, Flows, Workers
<1>2. /\ flow' = [NewFlow EXCEPT !.rebuilt = TRUE, !.used = flow.used]
      /\ signup' = [signup EXCEPT !.sessions = signup.sessions + 1]
      /\ UNCHANGED <<site, stopAsked>>
  BY DEF RebuildSession
<1>3. signup.sessions + 1 \in Nat
  BY <1>1
<1>4. /\ signup' \in Workers /\ signup'.row = signup.row /\ signup'.marker = signup.marker
      /\ signup'.sessions = signup.sessions + 1 /\ signup'.attempt = signup.attempt
      /\ signup'.switches = signup.switches
  BY <1>1, <1>2, <1>3, SetSessions
<1>5. /\ flow' \in Flows /\ flow'.at = "bootstrap" /\ ~flow'.boundary /\ flow'.rebuilt
  <2> DEFINE h == [NewFlow EXCEPT !.rebuilt = TRUE]
  <2>1. h \in Flows
    BY FreshFlow, SetFlowFlags
  <2>2. flow' = [h EXCEPT !.used = flow.used]
    BY <1>2
  <2>3. h.at = "bootstrap" /\ ~h.boundary /\ h.rebuilt
    BY FreshFlow DEF Flows
  <2> HIDE DEF h
  <2>4. flow' \in Flows
    BY <1>1, <2>1, <2>2, SetFlowUsed
  <2> QED BY <2>1, <2>2, <2>3, <2>4 DEF Flows
<1>6. SignupTypeOK' /\ CountInv'
  BY <1>2, <1>4, <1>5 DEF SignupInv, SignupTypeOK, CountInv
<1>7. PostInv'
  BY <1>1, <1>2, <1>4, <1>5 DEF SignupInv, PostInv
<1>8. SessionInv'
  <2>1. signup.attempt \in Int /\ signup.switches \in Int
    BY <1>1 DEF Workers
  <2> QED BY <1>1, <1>4, <1>5, <2>1 DEF SignupInv, SessionInv
<1> QED BY <1>6, <1>7, <1>8 DEF SignupInv

LEMMA RegistersStep == ASSUME SignupInv, Registers PROVE SignupInv'
<1>1. /\ signup' = [signup EXCEPT !.row = "registered"] /\ UNCHANGED <<site, flow, stopAsked>>
      /\ signup \in Workers
  BY DEF Registers, SignupInv, SignupTypeOK
<1>2. /\ signup' \in Workers /\ signup'.row = "registered" /\ signup'.marker = signup.marker
      /\ signup'.sessions = signup.sessions /\ signup'.attempt = signup.attempt
      /\ signup'.switches = signup.switches
  BY <1>1, SetRow
<1> QED BY <1>1, <1>2 DEF SignupInv, SignupTypeOK, PostInv, SessionInv, CountInv

LEMMA SignupStart == SignupInit => SignupInv
<1> SUFFICES ASSUME SignupInit PROVE SignupInv
  OBVIOUS
<1>1. site = [posts |-> 0, hinted |-> FALSE] /\ flow = NewFlow /\ stopAsked = FALSE
  BY DEF SignupInit
<1>2. /\ signup \in Workers /\ signup.row = "running" /\ signup.sessions = 1 /\ signup.attempt = 0
      /\ signup.switches = 0
  BY SignupAssumption DEF SignupInit, Workers, FailureNodes, FailureCodes
<1>3. SignupTypeOK
  BY <1>1, <1>2, FreshFlow DEF SignupTypeOK
<1>4. PostInv /\ SessionInv /\ CountInv
  BY <1>1, <1>2, FreshFlow DEF PostInv, SessionInv, CountInv
<1> QED BY <1>3, <1>4 DEF SignupInv

LEMMA SignupStep == SignupInv /\ [SignupNext]_signupVars => SignupInv'
<1> SUFFICES ASSUME SignupInv, [SignupNext]_signupVars PROVE SignupInv'
  OBVIOUS
<1>1. CASE UNCHANGED signupVars
  BY <1>1 DEF signupVars, SignupInv, SignupTypeOK, PostInv, SessionInv, CountInv
<1>2. CASE Bootstrap \/ Prelude \/ InitiateOauth
  BY <1>2, BootstrapStep, PreludeStep, OauthStep
<1>3. CASE ConfirmMailbox \/ AbortConfirmation \/ PostIdentifier
  BY <1>3, ConfirmStep, AbortStep, PostStep
<1>4. CASE TooManyPages \/ OtpPage \/ PasswordPage \/ ProfilePage \/ ConsentPage \/ LastPage
  BY <1>4, PagesStep
<1>5. CASE Callback
  BY <1>5, CallbackStep
<1>6. CASE SendOtp \/ WaitOtp \/ ResendOtp \/ VerifyOtp
  BY <1>6, CodeStep
<1>7. CASE RebuildSession \/ Challenged \/ Retried
  BY <1>7, RebuildStep, ChallengedStep, RetriedStep
<1>8. CASE Registers
  BY <1>8, RegistersStep
<1>9. CASE StopSignup
  BY <1>9 DEF StopSignup, SignupInv, SignupTypeOK, PostInv, SessionInv, CountInv
<1> QED BY <1>1, <1>2, <1>3, <1>4, <1>5, <1>6, <1>7, <1>8, <1>9 DEF SignupNext

\* Every variable keeps its type, for every choice of the limits.
THEOREM SignupTypeCorrect == SignupSpec => []SignupTypeOK
<1>1. SignupInv => SignupTypeOK
  BY DEF SignupInv
<1> QED BY <1>1, SignupStart, SignupStep, PTL DEF SignupSpec

\* Whatever answer is lost, the address is submitted at most once, and a row that goes
\* back to the pool was not submitted.
THEOREM AddressPostedOnce == SignupSpec => []AddressIsPostedOnce
<1>1. SignupInv => AddressIsPostedOnce
  BY DEF SignupInv, PostInv, AddressIsPostedOnce
<1> QED BY <1>1, SignupStart, SignupStep, PTL DEF SignupSpec

\* However a task fails, its sessions come to an end.
THEOREM SessionsBounded == SignupSpec => []SessionsAreBounded
<1>1. SignupInv => SessionsAreBounded
  <2> SUFFICES ASSUME SignupInv PROVE SessionsAreBounded
    OBVIOUS
  <2>1. /\ signup.attempt \in 0..RetryLimit /\ signup.switches \in 0..SwitchLimit
        /\ signup.sessions \in Nat
    BY DEF SignupInv, SignupTypeOK, Workers
  <2> QED BY <2>1, SignupAssumption DEF SignupInv, SessionInv, SessionsAreBounded
<1> QED BY <1>1, SignupStart, SignupStep, PTL DEF SignupSpec

--------------------------------------------------------------------------------
\* Password and second factor of an account.
\* The account as the server holds it.
Accounts == [password : BOOLEAN, mfa : Enrollments, issued : Enrollments]

\* A result claims no factor and no password that account a lacks.
Honest(x, a) ==
  /\ x.faStatus = "enabled" => a.mfa # 0
  /\ x.pwStatus = "enabled" \/ x.used \/ x.password => a.password

\* What the automatic continuations of a chain have used of their budgets.
Used(j) == Lesser(j.tries, TwofaLimit) + Lesser(j.pwTries, PasswordLimit) + j.cooled

\* The saved result s of account a, with l a refused save.
SavedOK(a, s, l) ==
  /\ a \in Accounts /\ s \in AccountResult
  /\ Honest(s, a)
  /\ a.mfa # 0 /\ ~l => s.secret = a.mfa

\* A job starts from the saved secret, and the only other one it can come to hold is a
\* fresh one, issued while the account has no second factor.
JobOK(j, a, s, l) ==
  /\ j \in SetupJob
  /\ Honest(j.env, a) /\ Honest(j.prior, a)
  /\ j.at \in {"added", "callback"} => a.password
  /\ j.at = "flow" => ~a.password
  /\ j.prior.secret # 0 => j.prior.secret = s.secret
  /\ j.env.secret # 0 /\ ~l => j.env.secret = s.secret
  /\ j.at = "over" /\ j.env.secret # 0 => s.secret # 0
  /\ j.prior.secret = 0 /\ j.at \notin {"over", "finish"} => j.env.secret = 0
  /\ j.at = "reauthed" /\ j.prior.secret # 0 => a.mfa # 0
  /\ j.at \in {"enrolled", "activate"} => j.prior.secret = 0 /\ a.mfa = 0 /\ j.fresh # 0
  /\ j.at = "activate" /\ ~l => s.secret = j.fresh
  /\ j.cooled <= ThrottleLimit /\ j.links <= Used(j)

TimerOK(j, a, s) ==
  /\ j \in SetupJob
  /\ Honest(j.env, a)
  /\ j.env.secret # 0 => s.secret # 0
  /\ j.cooled <= ThrottleLimit /\ j.links + 1 <= Used(j)

\* The inductive invariant.
SetupInv ==
  /\ SavedOK(account, saved, lostSave)
  /\ JobOK(job, account, saved, lostSave)
  /\ \A j \in timers : TimerOK(j, account, saved)
  /\ lostSave \in BOOLEAN
  /\ rowStatus \in {"running", "queued", "twofa_pending", "partial_success", "success",
                    "pending_rerun", "available"}
  /\ manuals \in 0..MaxManual /\ setupCrashes \in 0..MaxSetupCrashes

-------------------------------------------------------------------------------
(* Results and jobs, field by field.                                         *)

LEMMA ResultFields ==
  ASSUME NEW x \in AccountResult
  PROVE  /\ x.token \in BOOLEAN /\ x.password \in BOOLEAN /\ x.used \in BOOLEAN
         /\ x.pwStatus \in {"", "disabled", "pending", "enabled"}
         /\ x.faStatus \in {"", "disabled", "pending", "enabled"}
         /\ x.pwFail \in FailKinds /\ x.faFail \in FailKinds
         /\ x.secret \in Enrollments /\ x.session \in Enrollments
  BY DEF AccountResult

LEMMA SetToken ==
  ASSUME NEW x \in AccountResult, NEW v \in BOOLEAN PROVE [x EXCEPT !.token = v] \in AccountResult
  BY DEF AccountResult
LEMMA SetPassword ==
  ASSUME NEW x \in AccountResult, NEW v \in BOOLEAN
  PROVE  [x EXCEPT !.password = v] \in AccountResult
  BY DEF AccountResult
LEMMA SetUsed ==
  ASSUME NEW x \in AccountResult, NEW v \in BOOLEAN PROVE [x EXCEPT !.used = v] \in AccountResult
  BY DEF AccountResult
LEMMA SetPwStatus ==
  ASSUME NEW x \in AccountResult, NEW v \in {"", "disabled", "pending", "enabled"}
  PROVE  [x EXCEPT !.pwStatus = v] \in AccountResult
  BY DEF AccountResult
LEMMA SetFaStatus ==
  ASSUME NEW x \in AccountResult, NEW v \in {"", "disabled", "pending", "enabled"}
  PROVE  [x EXCEPT !.faStatus = v] \in AccountResult
  BY DEF AccountResult
LEMMA SetPwFail ==
  ASSUME NEW x \in AccountResult, NEW v \in FailKinds PROVE [x EXCEPT !.pwFail = v] \in AccountResult
  BY DEF AccountResult
LEMMA SetFaFail ==
  ASSUME NEW x \in AccountResult, NEW v \in FailKinds PROVE [x EXCEPT !.faFail = v] \in AccountResult
  BY DEF AccountResult
LEMMA SetSecret ==
  ASSUME NEW x \in AccountResult, NEW v \in Enrollments PROVE [x EXCEPT !.secret = v] \in AccountResult
  BY DEF AccountResult
LEMMA SetSession ==
  ASSUME NEW x \in AccountResult, NEW v \in Enrollments PROVE [x EXCEPT !.session = v] \in AccountResult
  BY DEF AccountResult

LEMMA JobFields ==
  ASSUME NEW j \in SetupJob
  PROVE  /\ j.mode \in SetupModes /\ j.at \in SetupPlaces
         /\ j.prior \in AccountResult /\ j.env \in AccountResult /\ j.fresh \in Enrollments
         /\ j.tries \in Nat /\ j.pwTries \in Nat /\ j.cooled \in Nat /\ j.links \in Nat
  BY DEF SetupJob

LEMMA SetMode ==
  ASSUME NEW j \in SetupJob, NEW v \in SetupModes PROVE [j EXCEPT !.mode = v] \in SetupJob
  BY DEF SetupJob
LEMMA SetAt ==
  ASSUME NEW j \in SetupJob, NEW v \in SetupPlaces PROVE [j EXCEPT !.at = v] \in SetupJob
  BY DEF SetupJob
LEMMA SetPrior ==
  ASSUME NEW j \in SetupJob, NEW v \in AccountResult PROVE [j EXCEPT !.prior = v] \in SetupJob
  BY DEF SetupJob
LEMMA SetEnv ==
  ASSUME NEW j \in SetupJob, NEW v \in AccountResult PROVE [j EXCEPT !.env = v] \in SetupJob
  BY DEF SetupJob
LEMMA SetFresh ==
  ASSUME NEW j \in SetupJob, NEW v \in Enrollments PROVE [j EXCEPT !.fresh = v] \in SetupJob
  BY DEF SetupJob
LEMMA SetTries ==
  ASSUME NEW j \in SetupJob, NEW v \in Nat PROVE [j EXCEPT !.tries = v] \in SetupJob
  BY DEF SetupJob
LEMMA SetPwTries ==
  ASSUME NEW j \in SetupJob, NEW v \in Nat PROVE [j EXCEPT !.pwTries = v] \in SetupJob
  BY DEF SetupJob
LEMMA SetCooled ==
  ASSUME NEW j \in SetupJob, NEW v \in Nat PROVE [j EXCEPT !.cooled = v] \in SetupJob
  BY DEF SetupJob
LEMMA SetLinks ==
  ASSUME NEW j \in SetupJob, NEW v \in Nat PROVE [j EXCEPT !.links = v] \in SetupJob
  BY DEF SetupJob

LEMMA EmptyResult == NoResult \in AccountResult /\ NoResult.secret = 0
                     /\ \A a : Honest(NoResult, a)
<1>1. 0 \in Enrollments
  BY SetupAssumption DEF Enrollments
<1>2. NoResult \in AccountResult
  BY <1>1 DEF NoResult, AccountResult, FailKinds
<1> QED BY <1>2 DEF NoResult, Honest

LEMMA FirstJob == /\ NewJob \in SetupJob /\ NewJob.at = "flow" /\ NewJob.prior = NoResult
                  /\ NewJob.env = NoResult /\ NewJob.tries = 0 /\ NewJob.pwTries = 0
                  /\ NewJob.cooled = 0 /\ NewJob.links = 0 /\ NewJob.fresh = 0
<1>1. 0 \in Enrollments
  BY SetupAssumption DEF Enrollments
<1>2. NewJob \in SetupJob
  BY <1>1, EmptyResult DEF NewJob, SetupJob, SetupModes, SetupPlaces
<1> QED BY <1>2 DEF NewJob

\* What a merged result says comes from one of the two.
LEMMA MergedIs ==
  ASSUME NEW old \in AccountResult, NEW new \in AccountResult
  PROVE  LET m == MergedResult(old, new)
         IN  /\ m \in AccountResult
             /\ m.secret = (IF new.secret # 0 THEN new.secret ELSE old.secret)
             /\ \A a : Honest(old, a) /\ Honest(new, a) => Honest(m, a)
<1> DEFINE pw == IF new.pwStatus # "" THEN new.pwStatus ELSE old.pwStatus
           fa == IF new.faStatus # "" THEN new.faStatus ELSE old.faStatus
           sec == IF new.secret # 0 THEN new.secret ELSE old.secret
           m1 == [new EXCEPT !.token = new.token \/ old.token]
           m2 == [m1 EXCEPT !.password = new.password \/ old.password]
           m3 == [m2 EXCEPT !.secret = sec]
           m4 == [m3 EXCEPT !.pwStatus = pw]
           m5 == [m4 EXCEPT !.faStatus = fa]
           m == MergedResult(old, new)
<1>1. /\ pw \in {"", "disabled", "pending", "enabled"}
      /\ fa \in {"", "disabled", "pending", "enabled"}
      /\ sec \in Enrollments
  BY ResultFields
<1>2. (new.token \/ old.token) \in BOOLEAN /\ (new.password \/ old.password) \in BOOLEAN
  OBVIOUS
<1>3. m1 \in AccountResult
  BY <1>2, SetToken
<1> HIDE DEF pw, fa, sec
<1>4. m2 \in AccountResult
  <2> HIDE DEF m1
  <2> QED BY <1>2, <1>3, SetPassword
<1>5. m3 \in AccountResult
  <2> HIDE DEF m2
  <2> QED BY <1>1, <1>4, SetSecret
<1>6. m4 \in AccountResult
  <2> HIDE DEF m3
  <2> QED BY <1>1, <1>5, SetPwStatus
<1>7. m5 \in AccountResult
  <2> HIDE DEF m4
  <2> QED BY <1>1, <1>6, SetFaStatus
<1>8. m = m5
  BY DEF MergedResult, pw, fa, sec
<1>9. /\ m5.secret = sec /\ m5.pwStatus = pw /\ m5.faStatus = fa
      /\ m5.used = new.used /\ m5.password = (new.password \/ old.password)
  BY DEF AccountResult
<1>10. ASSUME NEW a, Honest(old, a), Honest(new, a) PROVE Honest(m5, a)
  <2> HIDE DEF m5
  <2> QED BY <1>9, <1>10 DEF Honest, pw, fa
<1> HIDE DEF m, m5
<1> QED BY <1>7, <1>8, <1>9, <1>10 DEF m, sec

LEMMA NormalIs ==
  ASSUME NEW x \in AccountResult
  PROVE  LET m == NormalResult(x)
         IN  /\ m \in AccountResult /\ m.secret = x.secret
             /\ \A a : Honest(x, a) => Honest(m, a)
<1> DEFINE st == IF x.used \/ x.password THEN "enabled"
                 ELSE IF x.pwStatus = "" THEN "disabled" ELSE x.pwStatus
           m == [x EXCEPT !.pwStatus = st]
<1>1. st \in {"", "disabled", "pending", "enabled"}
  BY ResultFields
<1>2. m \in AccountResult
  <2> HIDE DEF st
  <2> QED BY <1>1, SetPwStatus
<1>3. /\ m.pwStatus = st /\ m.secret = x.secret /\ m.faStatus = x.faStatus
      /\ m.used = x.used /\ m.password = x.password
  BY DEF AccountResult
<1>4. ASSUME NEW a, Honest(x, a) PROVE Honest(m, a)
  <2> HIDE DEF m
  <2> QED BY <1>3, <1>4 DEF Honest
<1>5. NormalResult(x) = x \/ NormalResult(x) = m
  BY DEF NormalResult
<1> HIDE DEF m
<1> QED BY <1>2, <1>3, <1>4, <1>5

-------------------------------------------------------------------------------
(* Steps of a job.                                                           *)

\* A step of the same attempt.
Follows(j, k) ==
  /\ k \in SetupJob
  /\ k.prior = j.prior /\ k.tries = j.tries /\ k.pwTries = j.pwTries
  /\ k.cooled = j.cooled /\ k.links = j.links

\* The server takes neither back.
Grows(a, b) == (a.mfa # 0 => b.mfa # 0) /\ (a.password => b.password)

LEMMA FollowsTwice ==
  ASSUME NEW j, NEW k, NEW i, Follows(j, k), Follows(k, i) PROVE Follows(j, i)
  BY DEF Follows

LEMMA HonestGrows ==
  ASSUME NEW x, NEW a, NEW b, Honest(x, a), Grows(a, b) PROVE Honest(x, b)
  BY DEF Honest, Grows

LEMMA TimersGrow ==
  ASSUME NEW j, NEW a, NEW b, NEW s, NEW t, TimerOK(j, a, s), Grows(a, b),
         s.secret # 0 => t.secret # 0
  PROVE  TimerOK(j, b, t)
  BY HonestGrows DEF TimerOK

LEMMA AtStep ==
  ASSUME NEW j \in SetupJob, NEW v \in SetupPlaces
  PROVE  LET k == [j EXCEPT !.at = v] IN Follows(j, k) /\ k.at = v /\ k.env = j.env /\ k.fresh = j.fresh
<1> DEFINE k == [j EXCEPT !.at = v]
<1>1. k \in SetupJob
  BY SetAt
<1>2. k.at = v /\ k.env = j.env /\ k.fresh = j.fresh /\ k.prior = j.prior /\ k.tries = j.tries
  BY DEF SetupJob
<1>3. k.pwTries = j.pwTries /\ k.cooled = j.cooled /\ k.links = j.links
  BY DEF SetupJob
<1> QED BY <1>1, <1>2, <1>3 DEF Follows

LEMMA EnvStep ==
  ASSUME NEW j \in SetupJob, NEW x \in AccountResult
  PROVE  LET k == [j EXCEPT !.env = x] IN Follows(j, k) /\ k.at = j.at /\ k.env = x /\ k.mode = j.mode
<1> DEFINE k == [j EXCEPT !.env = x]
<1>1. k \in SetupJob
  BY SetEnv
<1>2. k.at = j.at /\ k.env = x /\ k.mode = j.mode /\ k.prior = j.prior /\ k.tries = j.tries
  BY DEF SetupJob
<1>3. k.pwTries = j.pwTries /\ k.cooled = j.cooled /\ k.links = j.links
  BY DEF SetupJob
<1> QED BY <1>1, <1>2, <1>3 DEF Follows

LEMMA EnvAtStep ==
  ASSUME NEW j \in SetupJob, NEW v \in SetupPlaces, NEW x \in AccountResult
  PROVE  LET k == [j EXCEPT !.at = v, !.env = x] IN Follows(j, k) /\ k.at = v /\ k.env = x
<1> DEFINE h == [j EXCEPT !.at = v]
           k == [h EXCEPT !.env = x]
<1>1. Follows(j, h) /\ h.at = v
  BY AtStep
<1>2. h \in SetupJob
  BY SetAt
<1>3. Follows(h, k) /\ k.at = h.at /\ k.env = x
  <2> HIDE DEF h
  <2> QED BY <1>2, EnvStep
<1>4. [j EXCEPT !.at = v, !.env = x] = k
  OBVIOUS
<1> HIDE DEF h, k
<1> QED BY <1>1, <1>3, <1>4, FollowsTwice

\* Whatever the password did, the second factor or the end is next.
LEMMA TwofaNext ==
  ASSUME NEW j \in SetupJob
  PROVE  LET k == ToTwofa(j)
         IN  /\ Follows(j, k) /\ k.at \in {"twofa", "finish"}
             /\ k.env.secret = j.env.secret
             /\ \A a : Honest(j.env, a) => Honest(k.env, a)
<1> DEFINE x == [j.env EXCEPT !.faStatus = "disabled"]
           k1 == [j EXCEPT !.at = "twofa"]
           k2 == [j EXCEPT !.at = "finish", !.env = x]
           k3 == [j EXCEPT !.at = "finish"]
           k == ToTwofa(j)
<1>1. "twofa" \in SetupPlaces /\ "finish" \in SetupPlaces
  BY DEF SetupPlaces
<1>2. j.env \in AccountResult
  BY JobFields
<1>3. x \in AccountResult
  BY <1>2, SetFaStatus
<1>4. /\ x.secret = j.env.secret
      /\ \A a : Honest(j.env, a) => Honest(x, a)
  BY <1>2 DEF AccountResult, Honest
<1>5. k = k1 \/ k = k2 \/ k = k3
  BY DEF ToTwofa
<1>6. Follows(j, k1) /\ k1.at = "twofa" /\ k1.env = j.env
  BY <1>1, AtStep
<1>7. Follows(j, k2) /\ k2.at = "finish" /\ k2.env = x
  <2> HIDE DEF x
  <2> QED BY <1>1, <1>3, EnvAtStep
<1>8. Follows(j, k3) /\ k3.at = "finish" /\ k3.env = j.env
  BY <1>1, AtStep
<1> HIDE DEF x, k, k1, k2, k3
<1> QED BY <1>4, <1>5, <1>6, <1>7, <1>8 DEF k

\* A step between the pages of an attempt that neither enrolls nor ends.
LEMMA JobMoves ==
  ASSUME NEW j, NEW k, NEW a, NEW b, NEW s, NEW l, JobOK(j, a, s, l), Follows(j, k),
         Grows(a, b), Honest(k.env, b),
         k.at \in {"password", "added", "callback", "twofa", "reauthed", "finish"},
         k.at \in {"added", "callback"} => b.password,
         k.env.secret # 0 /\ ~l => k.env.secret = s.secret,
         k.at # "finish" /\ k.prior.secret = 0 => k.env.secret = 0,
         k.at = "reauthed" /\ k.prior.secret # 0 => b.mfa # 0
  PROVE  JobOK(k, b, s, l)
<1>1. Honest(k.prior, b)
  BY HonestGrows DEF JobOK, Follows
<1>2. k.cooled <= ThrottleLimit /\ k.links <= Used(k)
  BY DEF JobOK, Follows, Used
<1>3. k.at \notin {"flow", "over", "enrolled", "activate"}
  OBVIOUS
<1>4. k.prior.secret # 0 => k.prior.secret = s.secret
  BY DEF JobOK, Follows
<1>5. k \in SetupJob
  BY DEF Follows
<1> QED BY <1>1, <1>2, <1>3, <1>4, <1>5 DEF JobOK

LEMMA SavedGrows ==
  ASSUME NEW a, NEW b \in Accounts, NEW s, NEW l, SavedOK(a, s, l), Grows(a, b),
         b.mfa = a.mfa \/ (~l => s.secret = b.mfa)
  PROVE  SavedOK(b, s, l)
  BY HonestGrows DEF SavedOK

-------------------------------------------------------------------------------
(* The actions on an account that save nothing.                              *)

LEMMA InvFacts ==
  ASSUME SetupInv
  PROVE  /\ SavedOK(account, saved, lostSave) /\ JobOK(job, account, saved, lostSave)
         /\ \A j \in timers : TimerOK(j, account, saved)
         /\ account \in Accounts /\ saved \in AccountResult /\ job \in SetupJob
         /\ job.env \in AccountResult /\ job.prior \in AccountResult
<1>1. job \in SetupJob
  BY DEF SetupInv, JobOK
<1>2. account \in Accounts /\ saved \in AccountResult
  BY DEF SetupInv, SavedOK
<1> QED BY <1>1, <1>2, JobFields DEF SetupInv

LEMMA QuietStep ==
  ASSUME SetupInv, UNCHANGED <<saved, rowStatus, timers, lostSave, manuals, setupCrashes>>,
         account' \in Accounts, Grows(account, account'),
         account'.mfa = account.mfa \/ (~lostSave => saved.secret = account'.mfa),
         JobOK(job', account', saved, lostSave)
  PROVE  SetupInv'
<1>1. SavedOK(account', saved, lostSave)
  BY SavedGrows DEF SetupInv
<1>2. \A j \in timers : TimerOK(j, account', saved)
  BY TimersGrow DEF SetupInv
<1> QED BY <1>1, <1>2 DEF SetupInv

LEMMA JobOnly ==
  ASSUME SetupInv, OnJob, JobOK(job', account, saved, lostSave)
  PROVE  SetupInv'
<1>1. Grows(account, account)
  BY DEF Grows
<1>2. account \in Accounts
  BY InvFacts
<1>3. account' = account /\ UNCHANGED <<saved, rowStatus, timers, lostSave, manuals, setupCrashes>>
  BY DEF OnJob
<1> QED BY <1>1, <1>2, <1>3, QuietStep

LEMMA SameServer == \A a : Grows(a, a)
  BY DEF Grows

\* The results a step of the attempt leaves behind are those it had, or say no more.
LEMMA PasswordOutcome ==
  ASSUME SetupInv, NEW st \in {"disabled", "pending", "enabled"}, NEW kind \in FailKinds,
         NEW pw \in BOOLEAN, NEW b, Grows(account, b), st = "enabled" \/ pw => b.password,
         job.at \in {"password", "callback"},
         NEW x, x.secret = job.env.secret, x.faStatus = job.env.faStatus,
         x.used = job.env.used, x.password = job.env.password \/ x.password = pw,
         x.pwStatus = st, x \in AccountResult
  PROVE  JobOK(ToTwofa([job EXCEPT !.env = x]), b, saved, lostSave)
<1> DEFINE h == [job EXCEPT !.env = x]
           k == ToTwofa(h)
<1>1. Follows(job, h) /\ h.env = x
  BY EnvStep, InvFacts
<1>2. h \in SetupJob
  BY <1>1 DEF Follows
<1>3. /\ Follows(h, k) /\ k.at \in {"twofa", "finish"} /\ k.env.secret = h.env.secret
      /\ \A a : Honest(h.env, a) => Honest(k.env, a)
  BY <1>2, TwofaNext
<1>4. Honest(job.env, b)
  BY InvFacts, HonestGrows DEF JobOK
<1>5. Honest(x, b)
  BY <1>4 DEF Honest
<1> HIDE DEF h, k
<1>6. Follows(job, k)
  BY <1>1, <1>3, FollowsTwice
<1>7. Honest(k.env, b) /\ k.env.secret = job.env.secret
  BY <1>1, <1>3, <1>5
<1>8. JobOK(job, account, saved, lostSave)
  BY InvFacts
<1>9. /\ job.env.secret # 0 /\ ~lostSave => job.env.secret = saved.secret
      /\ job.prior.secret = 0 => job.env.secret = 0
  BY <1>8 DEF JobOK
<1>10. k.prior = job.prior
  BY <1>6 DEF Follows
<1>11. JobOK(k, b, saved, lostSave)
  BY <1>3, <1>6, <1>7, <1>8, <1>9, <1>10, JobMoves
<1> QED BY <1>11 DEF k, h

LEMMA StepRegistered ==
  ASSUME SetupInv, NEW used \in BOOLEAN, Registered(used)
  PROVE  SetupInv'
<1> DEFINE x == [NoResult EXCEPT !.token = TRUE, !.used = used, !.password = used,
                                 !.pwStatus = IF used THEN "enabled" ELSE "disabled"]
           h == [job EXCEPT !.env = x]
           k == [h EXCEPT !.at = "password"]
           t == ToTwofa(h)
<1>1. /\ job.at = "flow" /\ account' = [account EXCEPT !.password = used]
      /\ job' = k \/ job' = t
      /\ UNCHANGED <<saved, rowStatus, timers, lostSave, manuals, setupCrashes>>
  BY DEF Registered
<1>2. x \in AccountResult
  <2>1. 0 \in Enrollments
    BY SetupAssumption DEF Enrollments
  <2> QED BY <2>1 DEF NoResult, AccountResult, FailKinds
<1>3. account' \in Accounts /\ account'.mfa = account.mfa /\ account'.password = used
  BY <1>1, InvFacts DEF Accounts
<1>4. ~account.password
  BY <1>1, InvFacts DEF JobOK
<1>5. Grows(account, account')
  BY <1>3, <1>4 DEF Grows
<1>6. x.secret = 0 /\ Honest(x, account')
  BY <1>3 DEF NoResult, Honest
<1>7. Follows(job, h) /\ h.env = x
  <2> HIDE DEF x
  <2> QED BY <1>2, InvFacts, EnvStep
<1>8. h \in SetupJob
  BY <1>7 DEF Follows
<1>9. Follows(h, k) /\ k.at = "password" /\ k.env = h.env
  <2> HIDE DEF h
  <2> QED BY <1>8, AtStep DEF SetupPlaces
<1>10. /\ Follows(h, t) /\ t.at \in {"twofa", "finish"} /\ t.env.secret = h.env.secret
       /\ \A a : Honest(h.env, a) => Honest(t.env, a)
  <2> HIDE DEF h
  <2> QED BY <1>8, TwofaNext
<1> HIDE DEF x, h, k, t
<1>11. Follows(job, k) /\ Follows(job, t)
  BY <1>7, <1>9, <1>10, FollowsTwice
<1>12. JobOK(job, account, saved, lostSave)
  BY InvFacts
<1>13. JobOK(k, account', saved, lostSave)
  BY <1>5, <1>6, <1>7, <1>9, <1>11, <1>12, JobMoves
<1>14. JobOK(t, account', saved, lostSave)
  BY <1>5, <1>6, <1>7, <1>10, <1>11, <1>12, JobMoves
<1> QED BY <1>1, <1>3, <1>5, <1>13, <1>14, QuietStep

LEMMA PasswordFailedIs ==
  ASSUME SetupInv, NEW kind \in FailKinds, NEW b, Grows(account, b),
         job.at \in {"password", "callback"}
  PROVE  JobOK(PasswordFailed(kind), b, saved, lostSave)
<1> DEFINE x == [job.env EXCEPT !.pwStatus = "pending", !.pwFail = kind]
           y == [job.env EXCEPT !.pwStatus = "pending"]
<1>1. job \in SetupJob /\ job.env \in AccountResult
  BY InvFacts
<1>2. y \in AccountResult
  BY <1>1, SetPwStatus
<1>3. x = [y EXCEPT !.pwFail = kind]
  OBVIOUS
<1>4. x \in AccountResult
  <2> HIDE DEF y, x
  <2> QED BY <1>2, <1>3, SetPwFail
<1>5. /\ x.secret = job.env.secret /\ x.faStatus = job.env.faStatus /\ x.used = job.env.used
      /\ x.password = job.env.password /\ x.pwStatus = "pending"
  BY <1>1 DEF AccountResult
<1>6. [job EXCEPT !.env.pwStatus = "pending", !.env.pwFail = kind] = [job EXCEPT !.env = x]
  BY <1>1 DEF SetupJob
<1> HIDE DEF x
<1>7. JobOK(ToTwofa([job EXCEPT !.env = x]), b, saved, lostSave)
  BY <1>4, <1>5, PasswordOutcome
<1> QED BY <1>6, <1>7 DEF PasswordFailed

LEMMA StepPasswordIneligible == ASSUME SetupInv, PasswordIneligible PROVE SetupInv'
<1> DEFINE x == [job.env EXCEPT !.pwStatus = "disabled"]
<1>1. job \in SetupJob /\ job.env \in AccountResult
  BY InvFacts
<1>2. x \in AccountResult
  BY <1>1, SetPwStatus
<1>3. /\ x.secret = job.env.secret /\ x.faStatus = job.env.faStatus /\ x.used = job.env.used
      /\ x.password = job.env.password /\ x.pwStatus = "disabled"
  BY <1>1 DEF AccountResult
<1>4. [job EXCEPT !.env.pwStatus = "disabled"] = [job EXCEPT !.env = x]
  BY <1>1
<1>5. OnJob /\ job.at = "password" /\ job' = ToTwofa([job EXCEPT !.env = x])
  BY <1>4 DEF PasswordIneligible
<1> HIDE DEF x
<1>6. "disabled" \in {"disabled", "pending", "enabled"} /\ "none" \in FailKinds
  BY DEF FailKinds
<1>7. JobOK(ToTwofa([job EXCEPT !.env = x]), account, saved, lostSave)
  BY <1>2, <1>3, <1>5, <1>6, SameServer, PasswordOutcome
<1> QED BY <1>5, <1>7, JobOnly

LEMMA StepPasswordFails ==
  ASSUME SetupInv, NEW kind \in FailKinds, PasswordFails(kind) PROVE SetupInv'
<1>1. JobOK(PasswordFailed(kind), account, saved, lostSave)
  BY SameServer, PasswordFailedIs DEF PasswordFails
<1> QED BY <1>1, JobOnly DEF PasswordFails

LEMMA StepPasswordAdds == ASSUME SetupInv, PasswordAdds PROVE SetupInv'
<1> DEFINE k == [job EXCEPT !.at = "added"]
<1>1. /\ job.at = "password" /\ account' = [account EXCEPT !.password = TRUE]
      /\ job' = k \/ job' = PasswordFailed("transient")
      /\ UNCHANGED <<saved, rowStatus, timers, lostSave, manuals, setupCrashes>>
  BY DEF PasswordAdds
<1>2. account' \in Accounts /\ account'.mfa = account.mfa /\ account'.password
  BY <1>1, InvFacts DEF Accounts
<1>3. Grows(account, account')
  BY <1>2 DEF Grows
<1>4. JobOK(PasswordFailed("transient"), account', saved, lostSave)
  BY <1>1, <1>3, PasswordFailedIs DEF FailKinds
<1>5. Follows(job, k) /\ k.at = "added" /\ k.env = job.env
  BY InvFacts, AtStep DEF SetupPlaces
<1> HIDE DEF k
<1>6. JobOK(job, account, saved, lostSave)
  BY InvFacts
<1>7. Honest(k.env, account')
  BY <1>3, <1>5, <1>6, HonestGrows DEF JobOK
<1>8. /\ job.env.secret # 0 /\ ~lostSave => job.env.secret = saved.secret
      /\ job.prior.secret = 0 => job.env.secret = 0
  BY <1>1, <1>6 DEF JobOK
<1>9. k.prior = job.prior
  BY <1>5 DEF Follows
<1>10. JobOK(k, account', saved, lostSave)
  BY <1>2, <1>3, <1>5, <1>6, <1>7, <1>8, <1>9, JobMoves
<1> QED BY <1>1, <1>2, <1>3, <1>4, <1>10, QuietStep

LEMMA StepPasswordDone == ASSUME SetupInv, PasswordDone PROVE SetupInv'
<1> DEFINE y == [job.env EXCEPT !.pwStatus = "enabled"]
           x == [job.env EXCEPT !.pwStatus = "enabled", !.password = TRUE]
<1>1. job \in SetupJob /\ job.env \in AccountResult
  BY InvFacts
<1>2. y \in AccountResult
  BY <1>1, SetPwStatus
<1>3. x = [y EXCEPT !.password = TRUE]
  OBVIOUS
<1>4. x \in AccountResult
  <2> HIDE DEF y, x
  <2> QED BY <1>2, <1>3, SetPassword
<1>5. /\ x.secret = job.env.secret /\ x.faStatus = job.env.faStatus /\ x.used = job.env.used
      /\ x.password = TRUE /\ x.pwStatus = "enabled"
  BY <1>1 DEF AccountResult
<1>6. [job EXCEPT !.env.pwStatus = "enabled", !.env.password = TRUE] = [job EXCEPT !.env = x]
  BY <1>1 DEF SetupJob
<1>7. OnJob /\ job.at = "callback" /\ job' = ToTwofa([job EXCEPT !.env = x])
  BY <1>6 DEF PasswordDone
<1> HIDE DEF x
<1>8. account.password
  BY <1>7, InvFacts DEF JobOK
<1>9. "none" \in FailKinds
  BY DEF FailKinds
<1>10. JobOK(ToTwofa([job EXCEPT !.env = x]), account, saved, lostSave)
  BY <1>4, <1>5, <1>7, <1>8, <1>9, SameServer, PasswordOutcome
<1> QED BY <1>7, <1>10, JobOnly

\* The second factor ends the attempt, enabled or pending.
LEMMA TwofaOutcome ==
  ASSUME SetupInv, NEW b, Grows(account, b), NEW x \in AccountResult, Honest(x, b),
         x.secret # 0 /\ ~lostSave => x.secret = saved.secret
  PROVE  JobOK([job EXCEPT !.at = "finish", !.env = x], b, saved, lostSave)
<1> DEFINE k == [job EXCEPT !.at = "finish", !.env = x]
<1>1. Follows(job, k) /\ k.at = "finish" /\ k.env = x
  BY InvFacts, EnvAtStep DEF SetupPlaces
<1> HIDE DEF k
<1>2. JobOK(k, b, saved, lostSave)
  BY <1>1, InvFacts, JobMoves
<1> QED BY <1>2 DEF k

LEMMA TwofaPendingIs ==
  ASSUME SetupInv, NEW kind \in FailKinds, NEW b, Grows(account, b)
  PROVE  JobOK(TwofaPending(kind), b, saved, lostSave)
<1> DEFINE y == [job.env EXCEPT !.faStatus = "pending"]
           x == [job.env EXCEPT !.faStatus = "pending", !.faFail = kind]
<1>1. job \in SetupJob /\ job.env \in AccountResult
  BY InvFacts
<1>2. y \in AccountResult
  BY <1>1, SetFaStatus
<1>3. x = [y EXCEPT !.faFail = kind]
  OBVIOUS
<1>4. x \in AccountResult
  <2> HIDE DEF y, x
  <2> QED BY <1>2, <1>3, SetFaFail
<1>5. /\ x.secret = job.env.secret /\ x.pwStatus = job.env.pwStatus /\ x.used = job.env.used
      /\ x.password = job.env.password /\ x.faStatus = "pending"
  BY <1>1 DEF AccountResult
<1>6. TwofaPending(kind) = [job EXCEPT !.at = "finish", !.env = x]
  BY <1>1 DEF TwofaPending, SetupJob
<1> HIDE DEF x
<1>7. Honest(job.env, b)
  BY InvFacts, HonestGrows DEF JobOK
<1>8. Honest(x, b)
  BY <1>5, <1>7 DEF Honest
<1>9. x.secret # 0 /\ ~lostSave => x.secret = saved.secret
  BY <1>5, InvFacts DEF JobOK
<1> QED BY <1>4, <1>6, <1>8, <1>9, TwofaOutcome

LEMMA TwofaEnabledIs ==
  ASSUME SetupInv, NEW s \in Enrollments, NEW b, Grows(account, b), b.mfa # 0,
         s # 0 /\ ~lostSave => s = saved.secret
  PROVE  JobOK(TwofaEnabled(s), b, saved, lostSave)
<1> DEFINE sec == IF s # 0 THEN s ELSE job.env.secret
           y == [job.env EXCEPT !.faStatus = "enabled"]
           x == [job.env EXCEPT !.faStatus = "enabled", !.secret = sec]
<1>1. job \in SetupJob /\ job.env \in AccountResult
  BY InvFacts
<1>2. y \in AccountResult
  BY <1>1, SetFaStatus
<1>3. x = [y EXCEPT !.secret = sec]
  OBVIOUS
<1>4. sec \in Enrollments
  BY <1>1, ResultFields
<1>5. x \in AccountResult
  <2> HIDE DEF y, x, sec
  <2> QED BY <1>2, <1>3, <1>4, SetSecret
<1>6. /\ x.secret = sec /\ x.pwStatus = job.env.pwStatus /\ x.used = job.env.used
      /\ x.password = job.env.password /\ x.faStatus = "enabled"
  BY <1>1 DEF AccountResult
<1>7. TwofaEnabled(s) = [job EXCEPT !.at = "finish", !.env = x]
  BY <1>1 DEF TwofaEnabled, SetupJob
<1> HIDE DEF x
<1>8. Honest(job.env, b)
  BY InvFacts, HonestGrows DEF JobOK
<1>9. Honest(x, b)
  BY <1>6, <1>8 DEF Honest
<1>10. job.env.secret # 0 /\ ~lostSave => job.env.secret = saved.secret
  BY InvFacts DEF JobOK
<1>11. x.secret # 0 /\ ~lostSave => x.secret = saved.secret
  BY <1>6, <1>10
<1> QED BY <1>5, <1>7, <1>9, <1>11, TwofaOutcome

LEMMA MfaSeenIsReal == TRUE \in MfaSeen => account.mfa # 0
  BY DEF MfaSeen

\* An activation, of the secret that is saved unless a save was refused.
LEMMA StepActivates ==
  ASSUME SetupInv, NEW s \in Enrollments, NEW e, Activates(s, e), s # 0,
         ~lostSave => s = saved.secret,
         UNCHANGED <<saved, rowStatus, timers, lostSave, manuals, setupCrashes>>
  PROVE  SetupInv'
<1>1. "transient" \in FailKinds
  BY DEF FailKinds
<1>2. CASE /\ account.mfa = 0 /\ e = s
           /\ account' = [account EXCEPT !.mfa = s]
           /\ job' \in {TwofaEnabled(s), TwofaPending("transient")}
  <2>1. account' \in Accounts /\ account'.mfa = s /\ account'.password = account.password
    BY <1>2, InvFacts DEF Accounts
  <2>2. Grows(account, account')
    BY <1>2, <2>1 DEF Grows
  <2>3. JobOK(TwofaEnabled(s), account', saved, lostSave)
    BY <2>1, <2>2, TwofaEnabledIs
  <2>4. JobOK(TwofaPending("transient"), account', saved, lostSave)
    BY <1>1, <2>2, TwofaPendingIs
  <2> QED BY <1>2, <2>1, <2>2, <2>3, <2>4, QuietStep
<1>3. CASE /\ UNCHANGED account
           /\ \E seen \in MfaSeen :
                job' = IF seen THEN TwofaEnabled(s) ELSE TwofaPending("transient")
  <2>1. PICK seen \in MfaSeen : job' = IF seen THEN TwofaEnabled(s) ELSE TwofaPending("transient")
    BY <1>3
  <2>2. seen \in BOOLEAN
    BY DEF MfaSeen
  <2>3. JobOK(TwofaPending("transient"), account, saved, lostSave)
    BY <1>1, SameServer, TwofaPendingIs
  <2>4. CASE seen = TRUE
    <3>1. account.mfa # 0
      BY <2>4, MfaSeenIsReal
    <3>2. JobOK(TwofaEnabled(s), account, saved, lostSave)
      BY <3>1, SameServer, TwofaEnabledIs
    <3> QED BY <1>3, <2>1, <2>4, <3>2, JobOnly DEF OnJob
  <2>5. CASE seen = FALSE
    BY <1>3, <2>1, <2>3, <2>5, JobOnly DEF OnJob
  <2> QED BY <2>2, <2>4, <2>5
<1> QED BY <1>2, <1>3 DEF Activates

LEMMA StepFastPath == ASSUME SetupInv, FastPath PROVE SetupInv'
<1>1. /\ job.prior.secret # 0 /\ Activates(job.prior.secret, job.prior.session)
      /\ UNCHANGED <<saved, rowStatus, timers, lostSave, manuals, setupCrashes>>
  BY DEF FastPath
<1>2. job.prior.secret = saved.secret
  BY <1>1, InvFacts DEF JobOK
<1>3. job.prior.secret \in Enrollments
  BY InvFacts, ResultFields
<1> QED BY <1>1, <1>2, <1>3, StepActivates

LEMMA StepTwofaActivates == ASSUME SetupInv, TwofaActivates PROVE SetupInv'
<1>1. /\ job.at = "activate" /\ Activates(job.fresh, job.fresh)
      /\ UNCHANGED <<saved, rowStatus, timers, lostSave, manuals, setupCrashes>>
  BY DEF TwofaActivates
<1>2. job.fresh # 0 /\ (~lostSave => job.fresh = saved.secret)
  BY <1>1, InvFacts DEF JobOK
<1>3. job.fresh \in Enrollments
  BY InvFacts, JobFields
<1> QED BY <1>1, <1>2, <1>3, StepActivates

LEMMA StepTwofaFails == ASSUME SetupInv, NEW kind \in FailKinds, TwofaFails(kind) PROVE SetupInv'
<1>1. JobOK(TwofaPending(kind), account, saved, lostSave)
  BY SameServer, TwofaPendingIs
<1> QED BY <1>1, JobOnly DEF TwofaFails

LEMMA StepAlreadyEnabled == ASSUME SetupInv, AlreadyEnabled PROVE SetupInv'
<1>1. account.mfa # 0
  BY MfaSeenIsReal DEF AlreadyEnabled
<1>2. 0 \in Enrollments
  BY SetupAssumption DEF Enrollments
<1>3. JobOK(TwofaEnabled(0), account, saved, lostSave)
  BY <1>1, <1>2, SameServer, TwofaEnabledIs
<1> QED BY <1>3, JobOnly DEF AlreadyEnabled

LEMMA StepReauthenticates == ASSUME SetupInv, Reauthenticates PROVE SetupInv'
<1> DEFINE k == [job EXCEPT !.at = "reauthed"]
<1>1. Follows(job, k) /\ k.at = "reauthed" /\ k.env = job.env
  BY InvFacts, AtStep DEF SetupPlaces
<1>2. /\ OnJob /\ job.at = "twofa" /\ job' = k
      /\ job.prior.secret # 0 => account.mfa # 0
  BY MfaSeenIsReal DEF Reauthenticates
<1> HIDE DEF k
<1>3. /\ Honest(job.env, account)
      /\ job.env.secret # 0 /\ ~lostSave => job.env.secret = saved.secret
      /\ job.prior.secret = 0 => job.env.secret = 0
  BY <1>2, InvFacts DEF JobOK
<1>4. k.prior = job.prior
  BY <1>1 DEF Follows
<1>5. JobOK(k, account, saved, lostSave)
  BY <1>1, <1>2, <1>3, <1>4, SameServer, InvFacts, JobMoves
<1> QED BY <1>2, <1>5, JobOnly

LEMMA StepEnrolls == ASSUME SetupInv, Enrolls PROVE SetupInv'
<1> DEFINE n == account.issued + 1
           h == [job EXCEPT !.at = "enrolled"]
           k == [h EXCEPT !.fresh = n]
<1>1. /\ job.at = "reauthed" /\ account.mfa = 0 /\ account.issued < MaxEnroll
      /\ account' = [account EXCEPT !.issued = n]
      /\ job' = k \/ job' = TwofaPending("transient")
      /\ UNCHANGED <<saved, rowStatus, timers, lostSave, manuals, setupCrashes>>
  BY DEF Enrolls
<1>2. n \in Enrollments /\ n # 0
  BY <1>1, InvFacts, SetupAssumption DEF Accounts, Enrollments
<1>3. /\ account' \in Accounts /\ account'.mfa = account.mfa
      /\ account'.password = account.password
  <2> HIDE DEF n
  <2> QED BY <1>1, <1>2, InvFacts DEF Accounts
<1>4. Grows(account, account')
  BY <1>3 DEF Grows
<1>5. JobOK(TwofaPending("transient"), account', saved, lostSave)
  BY <1>4, TwofaPendingIs DEF FailKinds
<1>6. Follows(job, h) /\ h.at = "enrolled" /\ h.env = job.env
  BY InvFacts, AtStep DEF SetupPlaces
<1>7. h \in SetupJob
  BY <1>6 DEF Follows
<1>8. k \in SetupJob
  <2> HIDE DEF h, n
  <2> QED BY <1>2, <1>7, SetFresh
<1>9. /\ k.at = "enrolled" /\ k.fresh = n /\ k.env = job.env /\ k.prior = job.prior
  <2> HIDE DEF n
  <2> QED BY InvFacts DEF SetupJob
<1>10. /\ k.tries = job.tries /\ k.pwTries = job.pwTries
       /\ k.cooled = job.cooled /\ k.links = job.links
  <2> HIDE DEF n
  <2> QED BY InvFacts DEF SetupJob
<1> HIDE DEF k, h
<1>11. JobOK(job, account, saved, lostSave)
  BY InvFacts
<1>12. /\ Honest(k.env, account') /\ Honest(k.prior, account')
  BY <1>4, <1>9, <1>11, HonestGrows DEF JobOK
<1>13. /\ k.prior.secret = 0 /\ k.env.secret = 0
  BY <1>1, <1>9, <1>11 DEF JobOK
<1>14. k.cooled <= ThrottleLimit /\ k.links <= Used(k)
  BY <1>10, <1>11 DEF JobOK, Used
<1>15. JobOK(k, account', saved, lostSave)
  BY <1>1, <1>2, <1>3, <1>8, <1>9, <1>12, <1>13, <1>14 DEF JobOK
<1> QED BY <1>1, <1>3, <1>4, <1>5, <1>15, QuietStep

-------------------------------------------------------------------------------
(* The milestones.                                                           *)

\* The job after a save t that keeps the saved secret, or a refused one.
LEMMA JobAfterSave ==
  ASSUME NEW j, NEW a, NEW s, NEW t, NEW l, NEW m, JobOK(j, a, s, l), t.secret = s.secret, l => m
  PROVE  JobOK(j, a, t, m)
  BY DEF JobOK

LEMMA StepPasswordPersists == ASSUME SetupInv, PasswordPersists PROVE SetupInv'
<1> DEFINE y1 == [saved EXCEPT !.token = TRUE]
           y2 == [y1 EXCEPT !.password = TRUE]
           x == [y2 EXCEPT !.pwStatus = "enabled"]
           k == [job EXCEPT !.at = "callback"]
<1>1. /\ job.at = "added" /\ job' = k
      /\ \/ saved' = x /\ UNCHANGED lostSave
         \/ lostSave' = TRUE /\ UNCHANGED saved
      /\ UNCHANGED <<account, rowStatus, timers, manuals, setupCrashes>>
  BY DEF PasswordPersists, Persisted
<1>2. y1 \in AccountResult
  BY InvFacts, SetToken
<1>3. y2 \in AccountResult
  <2> HIDE DEF y1
  <2> QED BY <1>2, SetPassword
<1>4. x \in AccountResult
  <2> HIDE DEF y2
  <2> QED BY <1>3, SetPwStatus
<1>5. x.secret = saved.secret /\ x.faStatus = saved.faStatus /\ x.used = saved.used
  BY InvFacts DEF AccountResult
<1>6. account.password /\ Honest(saved, account)
  BY <1>1, InvFacts DEF JobOK, SavedOK
<1>7. Follows(job, k) /\ k.at = "callback" /\ k.env = job.env
  BY InvFacts, AtStep DEF SetupPlaces
<1> HIDE DEF x, k
<1>8. Honest(x, account)
  BY <1>5, <1>6 DEF Honest
<1>9. /\ Honest(job.env, account)
      /\ job.env.secret # 0 /\ ~lostSave => job.env.secret = saved.secret
      /\ job.prior.secret = 0 => job.env.secret = 0
  BY <1>1, InvFacts DEF JobOK
<1>10. k.prior = job.prior
  BY <1>7 DEF Follows
<1>11. JobOK(k, account, saved, lostSave)
  BY <1>6, <1>7, <1>9, <1>10, SameServer, InvFacts, JobMoves
<1>12. saved'.secret = saved.secret /\ (lostSave => lostSave')
  BY <1>1, <1>5
<1>13. JobOK(k, account, saved', lostSave')
  BY <1>11, <1>12, JobAfterSave
<1>14. SavedOK(account, saved', lostSave')
  BY <1>1, <1>4, <1>5, <1>8, <1>12, InvFacts DEF SavedOK
<1>15. \A i \in timers : TimerOK(i, account, saved')
  BY <1>12, SameServer, InvFacts, TimersGrow
<1> QED BY <1>1, <1>13, <1>14, <1>15 DEF SetupInv

LEMMA StepTwofaPersists == ASSUME SetupInv, TwofaPersists PROVE SetupInv'
<1> DEFINE y1 == [saved EXCEPT !.faStatus = "pending"]
           y2 == [y1 EXCEPT !.secret = job.fresh]
           x == [y2 EXCEPT !.session = job.fresh]
           k == [job EXCEPT !.at = "activate"]
<1>1. /\ job.at = "enrolled" /\ job' = k
      /\ \/ saved' = x /\ UNCHANGED lostSave
         \/ lostSave' = TRUE /\ UNCHANGED saved
      /\ UNCHANGED <<account, rowStatus, timers, manuals, setupCrashes>>
  BY DEF TwofaPersists, Persisted
<1>2. job.fresh \in Enrollments
  BY InvFacts, JobFields
<1>3. y1 \in AccountResult
  BY InvFacts, SetFaStatus
<1>4. y2 \in AccountResult
  <2> HIDE DEF y1
  <2> QED BY <1>2, <1>3, SetSecret
<1>5. x \in AccountResult
  <2> HIDE DEF y2
  <2> QED BY <1>2, <1>4, SetSession
<1>6. /\ x.secret = job.fresh /\ x.faStatus = "pending" /\ x.used = saved.used
      /\ x.password = saved.password /\ x.pwStatus = saved.pwStatus
  BY InvFacts DEF AccountResult
<1>7. Follows(job, k) /\ k.at = "activate" /\ k.env = job.env /\ k.fresh = job.fresh
  BY InvFacts, AtStep DEF SetupPlaces
<1> HIDE DEF x, k
<1>8. JobOK(job, account, saved, lostSave) /\ Honest(saved, account)
  BY InvFacts DEF SavedOK
<1>9. Honest(x, account)
  BY <1>6, <1>8 DEF Honest
<1>10. /\ job.prior.secret = 0 /\ job.env.secret = 0 /\ account.mfa = 0 /\ job.fresh # 0
  BY <1>1, <1>8 DEF JobOK
<1>11. k \in SetupJob /\ k.prior = job.prior
  BY <1>7 DEF Follows
<1>12. k.cooled <= ThrottleLimit /\ k.links <= Used(k)
  BY <1>7, <1>8 DEF JobOK, Used, Follows
<1>13. /\ Honest(k.env, account) /\ Honest(k.prior, account)
  BY <1>7, <1>8, <1>11 DEF JobOK
<1>14. ~lostSave' => saved'.secret = job.fresh
  BY <1>1, <1>6
<1>15. JobOK(k, account, saved', lostSave')
  BY <1>7, <1>10, <1>11, <1>12, <1>13, <1>14 DEF JobOK
<1>16. SavedOK(account, saved', lostSave')
  BY <1>1, <1>5, <1>9, <1>10, InvFacts DEF SavedOK
<1>17. saved.secret # 0 => saved'.secret # 0
  BY <1>1, <1>6, <1>10
<1>18. \A i \in timers : TimerOK(i, account, saved')
  BY <1>17, SameServer, InvFacts, TimersGrow
<1> QED BY <1>1, <1>15, <1>16, <1>18 DEF SetupInv

-------------------------------------------------------------------------------
(* The end of an attempt.                                                    *)

LEMMA ResultIs ==
  ASSUME SetupInv
  PROVE  LET r == SetupResult(job)
         IN  /\ r \in AccountResult /\ Honest(r, account)
             /\ r.secret # 0 => r.secret \in {job.env.secret, job.prior.secret}
<1> DEFINE used == job.env.used \/ job.env.pwStatus = "enabled"
           y == [job.env EXCEPT !.password = used]
           x == [y EXCEPT !.used = used]
           z == IF job.mode = "register" THEN x ELSE MergedResult(job.prior, job.env)
           n == NormalResult(z)
<1>1. job.env \in AccountResult /\ job.prior \in AccountResult
  BY InvFacts
<1>2. Honest(job.env, account) /\ Honest(job.prior, account)
  BY InvFacts DEF JobOK
<1>3. used \in BOOLEAN
  BY <1>1, ResultFields
<1>4. y \in AccountResult
  <2> HIDE DEF used
  <2> QED BY <1>1, <1>3, SetPassword
<1>5. x \in AccountResult
  <2> HIDE DEF used, y
  <2> QED BY <1>3, <1>4, SetUsed
<1>6. /\ x.secret = job.env.secret /\ x.faStatus = job.env.faStatus
      /\ x.used = used /\ x.password = used /\ x.pwStatus = job.env.pwStatus
  BY <1>1 DEF AccountResult
<1>7. Honest(x, account)
  <2>1. used => account.password
    BY <1>2 DEF Honest
  <2> HIDE DEF x, used
  <2> QED BY <1>2, <1>6, <2>1 DEF Honest
<1>8. /\ z \in AccountResult /\ Honest(z, account)
      /\ z.secret # 0 => z.secret \in {job.env.secret, job.prior.secret}
  <2> HIDE DEF x
  <2> QED BY <1>1, <1>2, <1>5, <1>6, <1>7, MergedIs
<1>9. n \in AccountResult /\ n.secret = z.secret /\ Honest(n, account)
  <2> HIDE DEF z
  <2> QED BY <1>8, NormalIs
<1> DEFINE Kept(status, kind) == IF status # "pending" THEN "none"
                                 ELSE IF kind = "none" THEN "transient" ELSE kind
           r1 == [n EXCEPT !.pwFail = Kept(n.pwStatus, n.pwFail)]
           r2 == [r1 EXCEPT !.faFail = Kept(n.faStatus, n.faFail)]
<1> HIDE DEF n
<1>10. Kept(n.pwStatus, n.pwFail) \in FailKinds /\ Kept(n.faStatus, n.faFail) \in FailKinds
  BY <1>9, ResultFields DEF FailKinds
<1>11. r1 \in AccountResult
  <2> HIDE DEF Kept
  <2> QED BY <1>9, <1>10, SetPwFail
<1>12. r2 \in AccountResult
  <2> HIDE DEF Kept, r1
  <2> QED BY <1>10, <1>11, SetFaFail
<1>13. /\ r2.secret = n.secret /\ r2.faStatus = n.faStatus /\ r2.used = n.used
       /\ r2.password = n.password /\ r2.pwStatus = n.pwStatus
  BY <1>9 DEF AccountResult
<1>14. SetupResult(job) = r2
  BY DEF SetupResult, n
<1> HIDE DEF r2
<1>15. Honest(r2, account)
  BY <1>9, <1>13 DEF Honest
<1> HIDE DEF z
<1> QED BY <1>8, <1>9, <1>12, <1>13, <1>14, <1>15

\* A job over with result x.
LEMMA OverJob ==
  ASSUME NEW j \in SetupJob, NEW x \in AccountResult
  PROVE  LET k == [j EXCEPT !.at = "over", !.env = x, !.prior = NoResult, !.fresh = 0]
         IN  /\ k \in SetupJob /\ k.at = "over" /\ k.env = x /\ k.prior = NoResult
             /\ k.tries = j.tries /\ k.pwTries = j.pwTries /\ k.cooled = j.cooled /\ k.links = j.links
<1> DEFINE k1 == [j EXCEPT !.at = "over"]
           k2 == [k1 EXCEPT !.env = x]
           k3 == [k2 EXCEPT !.prior = NoResult]
           k4 == [k3 EXCEPT !.fresh = 0]
           k == [j EXCEPT !.at = "over", !.env = x, !.prior = NoResult, !.fresh = 0]
<1>1. k1 \in SetupJob
  BY SetAt DEF SetupPlaces
<1>2. k2 \in SetupJob
  <2> HIDE DEF k1
  <2> QED BY <1>1, SetEnv
<1>3. k3 \in SetupJob
  <2> HIDE DEF k2
  <2> QED BY <1>2, EmptyResult, SetPrior
<1>4. 0 \in Enrollments
  BY SetupAssumption DEF Enrollments
<1>5. k4 \in SetupJob
  <2> HIDE DEF k3
  <2> QED BY <1>3, <1>4, SetFresh
<1>6. k = k4
  OBVIOUS
<1>7. k4.at = "over" /\ k4.env = x /\ k4.prior = NoResult
  BY DEF SetupJob
<1>8. k4.tries = j.tries /\ k4.pwTries = j.pwTries
  BY DEF SetupJob
<1>9. k4.cooled = j.cooled /\ k4.links = j.links
  BY DEF SetupJob
<1> HIDE DEF k, k4
<1> QED BY <1>5, <1>6, <1>7, <1>8, <1>9 DEF k

\* A continuation: it starts from the saved result s, and costs an attempt.
LEMMA ContinuationFields ==
  ASSUME NEW j \in SetupJob, NEW mode \in {"twofa", "password"}, NEW auto \in BOOLEAN,
         saved' \in AccountResult
  PROVE  LET k == Continuation(j, mode, auto)
         IN  /\ k \in SetupJob /\ k.at \in {"password", "twofa"} /\ k.env = saved'
             /\ k.prior.secret = MergedResult(j.env, saved').secret
             /\ \A a : Honest(MergedResult(j.env, saved'), a) => Honest(k.prior, a)
             /\ k.tries = j.tries + 1 /\ k.pwTries = j.pwTries + PasswordAttempt(mode)
             /\ k.cooled = j.cooled /\ k.links = IF auto THEN j.links + 1 ELSE 0
<1> DEFINE m == MergedResult(j.env, saved')
           pr == [m EXCEPT !.pwStatus = IF mode = "password" THEN "pending" ELSE @]
           at == IF mode = "password" \/ (AutoPassword /\ PasswordRetryAllowed(saved'))
                 THEN "password" ELSE "twofa"
           n == IF auto THEN j.links + 1 ELSE 0
           w == j.pwTries + PasswordAttempt(mode)
           t == j.tries + 1
           c == j.cooled
           k1 == [NewJob EXCEPT !.mode = mode]
           k2 == [k1 EXCEPT !.at = at]
           k3 == [k2 EXCEPT !.prior = pr]
           k4 == [k3 EXCEPT !.env = saved']
           k5 == [k4 EXCEPT !.tries = t]
           k6 == [k5 EXCEPT !.pwTries = w]
           k7 == [k6 EXCEPT !.cooled = c]
           k8 == [k7 EXCEPT !.links = n]
<1>1. at \in {"password", "twofa"} /\ at \in SetupPlaces
  BY DEF SetupPlaces
<1>2. j.env \in AccountResult /\ m \in AccountResult
  <2>1. j.env \in AccountResult
    BY JobFields
  <2> QED BY <2>1, MergedIs
<1> HIDE DEF m
<1>3. m.pwStatus \in {"", "disabled", "pending", "enabled"}
  BY <1>2, ResultFields
<1>4. pr \in AccountResult
  <2> DEFINE v == IF mode = "password" THEN "pending" ELSE m.pwStatus
  <2>1. v \in {"", "disabled", "pending", "enabled"}
    BY <1>3
  <2> HIDE DEF v
  <2>2. [m EXCEPT !.pwStatus = v] \in AccountResult
    BY <1>2, <2>1, SetPwStatus
  <2> QED BY <2>2 DEF v
<1>5. /\ pr.secret = m.secret /\ pr.faStatus = m.faStatus /\ pr.used = m.used
      /\ pr.password = m.password /\ pr.pwStatus \in {"pending", m.pwStatus}
  BY <1>2 DEF AccountResult
<1>6. n \in Nat /\ w \in Nat /\ t \in Nat /\ c \in Nat
  BY JobFields DEF PasswordAttempt
<1>7. k1 \in SetupJob
  BY FirstJob, SetMode DEF SetupModes
<1> HIDE DEF at, n, w, t, c, pr
<1>8. k2 \in SetupJob
  <2> HIDE DEF k1
  <2> QED BY <1>1, <1>7, SetAt
<1>9. k3 \in SetupJob
  <2> HIDE DEF k2
  <2> QED BY <1>4, <1>8, SetPrior
<1>10. k4 \in SetupJob
  <2> HIDE DEF k3
  <2> QED BY <1>9, SetEnv
<1>11. k5 \in SetupJob
  <2> HIDE DEF k4
  <2> QED BY <1>6, <1>10, SetTries
<1>12. k6 \in SetupJob
  <2> HIDE DEF k5
  <2> QED BY <1>6, <1>11, SetPwTries
<1>13. k7 \in SetupJob
  <2> HIDE DEF k6
  <2> QED BY <1>6, <1>12, SetCooled
<1>14. k8 \in SetupJob
  <2> HIDE DEF k7
  <2> QED BY <1>6, <1>13, SetLinks
<1>15. k4.at = at /\ k4.prior = pr /\ k4.env = saved'
  <2>1. k2.at = at
    <3> HIDE DEF k1
    <3> QED BY <1>7 DEF SetupJob
  <2>2. k4.at = k2.at /\ k4.prior = pr /\ k4.env = saved'
    <3> HIDE DEF k2
    <3> QED BY <1>8 DEF SetupJob
  <2> QED BY <2>1, <2>2
<1>16. /\ k8.at = k4.at /\ k8.prior = k4.prior /\ k8.env = k4.env
       /\ k8.tries = t /\ k8.pwTries = w /\ k8.cooled = c /\ k8.links = n
  <2> HIDE DEF k4
  <2>1. k6.at = k4.at /\ k6.prior = k4.prior /\ k6.env = k4.env /\ k6.tries = t /\ k6.pwTries = w
    BY <1>10 DEF SetupJob
  <2>2. /\ k8.at = k6.at /\ k8.prior = k6.prior /\ k8.env = k6.env
        /\ k8.tries = k6.tries /\ k8.pwTries = k6.pwTries
        /\ k8.cooled = c /\ k8.links = n
    <3> HIDE DEF k6
    <3> QED BY <1>12 DEF SetupJob
  <2> QED BY <2>1, <2>2
<1>17. Continuation(j, mode, auto) = k8
  BY DEF Continuation, at, n, w, t, c, pr, m
<1> HIDE DEF k8, k4
<1>18. \A a : Honest(m, a) => Honest(pr, a)
  BY <1>5 DEF Honest
<1> QED BY <1>1, <1>5, <1>14, <1>15, <1>16, <1>17, <1>18 DEF m, n, w, t, c

LEMMA ContinuationIs ==
  ASSUME NEW j \in SetupJob, NEW mode \in {"twofa", "password"}, NEW auto \in BOOLEAN,
         saved' \in AccountResult, NEW a, NEW l, Honest(saved', a), Honest(j.env, a),
         j.env.secret # 0 => saved'.secret # 0, j.cooled <= ThrottleLimit,
         auto => j.links + 1 <= Lesser(j.tries + 1, TwofaLimit)
                                  + Lesser(j.pwTries + PasswordAttempt(mode), PasswordLimit) + j.cooled
  PROVE  JobOK(Continuation(j, mode, auto), a, saved', l)
<1> DEFINE k == Continuation(j, mode, auto)
           m == MergedResult(j.env, saved')
<1>1. /\ k \in SetupJob /\ k.at \in {"password", "twofa"} /\ k.env = saved'
      /\ k.prior.secret = m.secret /\ (Honest(m, a) => Honest(k.prior, a))
      /\ k.tries = j.tries + 1 /\ k.pwTries = j.pwTries + PasswordAttempt(mode)
      /\ k.cooled = j.cooled /\ k.links = IF auto THEN j.links + 1 ELSE 0
  BY ContinuationFields
<1> HIDE DEF k
<1>2. j.env \in AccountResult
  BY JobFields
<1>3. /\ Honest(m, a)
      /\ m.secret = IF saved'.secret # 0 THEN saved'.secret ELSE j.env.secret
  BY <1>2, MergedIs
<1> HIDE DEF m
<1>4. k.prior.secret # 0 => k.prior.secret = saved'.secret
  BY <1>1, <1>3
<1>5. k.prior.secret = 0 => k.env.secret = 0
  BY <1>1, <1>3
<1>6. k.tries \in Nat /\ k.pwTries \in Nat /\ k.cooled \in Nat /\ k.links \in Nat
  BY <1>1, JobFields
<1>7. k.links <= Used(k)
  BY <1>1, <1>6, SetupAssumption DEF Used, Lesser
<1> QED BY <1>1, <1>3, <1>4, <1>5, <1>7 DEF JobOK, k

\* A continuation of a job or a cool-down over the result it leaves.
LEMMA AutoAttempt ==
  ASSUME NEW j \in SetupJob, j.cooled <= ThrottleLimit, j.links <= Used(j),
         NEW mode \in {"twofa", "password"},
         mode = "twofa" => j.tries < TwofaLimit, mode = "password" => j.pwTries < PasswordLimit
  PROVE  j.links + 1 <= Lesser(j.tries + 1, TwofaLimit)
                          + Lesser(j.pwTries + PasswordAttempt(mode), PasswordLimit) + j.cooled
<1>1. j.tries \in Nat /\ j.pwTries \in Nat /\ j.cooled \in Nat /\ j.links \in Nat
  BY JobFields
<1>2. TwofaLimit \in Nat /\ PasswordLimit \in Nat
  BY SetupAssumption
<1>3. CASE mode = "twofa"
  BY <1>1, <1>2, <1>3 DEF Used, Lesser, PasswordAttempt
<1>4. CASE mode = "password"
  BY <1>1, <1>2, <1>4 DEF Used, Lesser, PasswordAttempt
<1> QED BY <1>3, <1>4

LEMMA CooledAttempt ==
  ASSUME NEW j \in SetupJob, j.links + 1 <= Used(j), NEW mode \in {"twofa", "password"}
  PROVE  j.links + 1 <= Lesser(j.tries + 1, TwofaLimit)
                          + Lesser(j.pwTries + PasswordAttempt(mode), PasswordLimit) + j.cooled
<1>1. j.tries \in Nat /\ j.pwTries \in Nat /\ j.cooled \in Nat /\ j.links \in Nat
  BY JobFields
<1>2. TwofaLimit \in Nat /\ PasswordLimit \in Nat /\ PasswordAttempt(mode) \in {0, 1}
  BY SetupAssumption DEF PasswordAttempt
<1> QED BY <1>1, <1>2 DEF Used, Lesser

LEMMA CooledJob ==
  ASSUME NEW j, NEW a, NEW s, NEW l, JobOK(j, a, s, l), j.at = "over", j.cooled < ThrottleLimit
  PROVE  LET k == [j EXCEPT !.cooled = @ + 1] IN JobOK(k, a, s, l) /\ TimerOK(k, a, s)
<1> DEFINE n == j.cooled + 1
           k == [j EXCEPT !.cooled = n]
<1>1. j \in SetupJob
  BY DEF JobOK
<1>2. /\ j.tries \in Nat /\ j.pwTries \in Nat /\ j.cooled \in Nat /\ j.links \in Nat
      /\ n \in Nat
  BY <1>1, JobFields
<1>3. n <= ThrottleLimit
  BY <1>2, SetupAssumption
<1>4. k \in SetupJob
  <2> HIDE DEF n
  <2> QED BY <1>1, <1>2, SetCooled
<1>5. k.at = j.at /\ k.env = j.env /\ k.prior = j.prior /\ k.fresh = j.fresh /\ k.cooled = n
  <2> HIDE DEF n
  <2> QED BY <1>1 DEF SetupJob
<1>6. k.tries = j.tries /\ k.pwTries = j.pwTries /\ k.links = j.links
  <2> HIDE DEF n
  <2> QED BY <1>1 DEF SetupJob
<1>7. j.links <= Used(j)
  BY DEF JobOK
<1> DEFINE u == Lesser(j.tries, TwofaLimit) + Lesser(j.pwTries, PasswordLimit)
<1>8. u \in Int
  BY <1>2, SetupAssumption DEF Lesser
<1>9. Used(j) = u + j.cooled /\ Used(k) = u + n
  <2> HIDE DEF k, n
  <2> QED BY <1>5, <1>6 DEF Used
<1> HIDE DEF u
<1>10. k.links + 1 <= Used(k)
  <2> HIDE DEF k
  <2> QED BY <1>2, <1>6, <1>7, <1>8, <1>9
<1>11. k.links <= Used(k)
  <2> HIDE DEF k
  <2> QED BY <1>2, <1>6, <1>8, <1>9, <1>10
<1> HIDE DEF k, n
<1>12. JobOK(k, a, s, l)
  BY <1>3, <1>4, <1>5, <1>11 DEF JobOK
<1>13. TimerOK(k, a, s)
  BY <1>3, <1>4, <1>5, <1>10 DEF JobOK, TimerOK
<1> QED BY <1>12, <1>13 DEF k, n

LEMMA StepSchedules ==
  ASSUME NEW j, NEW r, NEW a, NEW l, NEW status \in {"twofa_pending", "partial_success", "success"},
         saved' \in AccountResult, Honest(saved', a),
         JobOK(j, a, saved', l), j.at = "over",
         \A i \in timers : TimerOK(i, a, saved'), Schedules(j, r, status)
  PROVE  /\ JobOK(job', a, saved', l)
         /\ \A i \in timers' : TimerOK(i, a, saved')
         /\ rowStatus' \in {status, "queued"}
<1> DEFINE mode == IF status = "twofa_pending" THEN "twofa" ELSE "password"
           k == [j EXCEPT !.cooled = @ + 1]
<1>1. CASE /\ j.cooled < ThrottleLimit
           /\ job' = k /\ timers' = timers \cup {job'} /\ rowStatus' = status
  <2>1. JobOK(k, a, saved', l) /\ TimerOK(k, a, saved')
    BY <1>1, CooledJob
  <2> HIDE DEF k
  <2> QED BY <1>1, <2>1
<1>2. CASE NotEnqueued(j, status) /\ UNCHANGED timers
  BY <1>2 DEF NotEnqueued
<1>3. CASE /\ mode = "twofa" => j.tries < TwofaLimit
           /\ mode = "password" => j.pwTries < PasswordLimit
           /\ EnqueueRetry(j, mode, TRUE) /\ UNCHANGED timers
  <2>1. mode \in {"twofa", "password"}
    OBVIOUS
  <2>2. /\ j \in SetupJob /\ Honest(j.env, a) /\ j.cooled <= ThrottleLimit /\ j.links <= Used(j)
        /\ j.env.secret # 0 => saved'.secret # 0
    BY DEF JobOK
  <2> HIDE DEF mode
  <2>3. j.links + 1 <= Lesser(j.tries + 1, TwofaLimit)
                         + Lesser(j.pwTries + PasswordAttempt(mode), PasswordLimit) + j.cooled
    BY <1>3, <2>1, <2>2, AutoAttempt
  <2>4. JobOK(Continuation(j, mode, TRUE), a, saved', l)
    BY <2>1, <2>2, <2>3, ContinuationIs
  <2> QED BY <1>3, <2>4 DEF EnqueueRetry
<1>4. \/ /\ j.cooled < ThrottleLimit
         /\ job' = k /\ timers' = timers \cup {job'} /\ rowStatus' = status
      \/ NotEnqueued(j, status) /\ UNCHANGED timers
      \/ /\ mode = "twofa" => j.tries < TwofaLimit
         /\ mode = "password" => j.pwTries < PasswordLimit
         /\ EnqueueRetry(j, mode, TRUE) /\ UNCHANGED timers
  BY DEF Schedules
<1> QED BY <1>1, <1>2, <1>3, <1>4

LEMMA StepFinishes == ASSUME SetupInv, Finishes PROVE SetupInv'
<1> DEFINE r == SetupResult(job)
           j == [job EXCEPT !.at = "over", !.env = r, !.prior = NoResult, !.fresh = 0]
<1>1. /\ job.at = "finish" /\ saved' = MergedResult(saved, r)
      /\ Schedules(j, r, StatusOf(r))
      /\ UNCHANGED <<account, lostSave, manuals, setupCrashes>>
  BY DEF Finishes
<1>2. /\ r \in AccountResult /\ Honest(r, account)
      /\ r.secret # 0 => r.secret \in {job.env.secret, job.prior.secret}
  BY ResultIs
<1> HIDE DEF r
<1>3. /\ j \in SetupJob /\ j.at = "over" /\ j.env = r /\ j.prior = NoResult
      /\ j.tries = job.tries /\ j.pwTries = job.pwTries /\ j.cooled = job.cooled
      /\ j.links = job.links
  BY <1>2, InvFacts, OverJob
<1> HIDE DEF j
<1>4. JobOK(job, account, saved, lostSave) /\ SavedOK(account, saved, lostSave)
  BY InvFacts
<1>5. /\ saved' \in AccountResult /\ Honest(saved', account)
      /\ saved'.secret = IF r.secret # 0 THEN r.secret ELSE saved.secret
  <2>1. Honest(saved, account)
    BY <1>4 DEF SavedOK
  <2> QED BY <1>1, <1>2, <2>1, InvFacts, MergedIs
<1>6. ~lostSave => saved'.secret = saved.secret
  BY <1>2, <1>4, <1>5 DEF JobOK
<1>7. saved.secret # 0 => saved'.secret # 0
  BY <1>5
<1>8. SavedOK(account, saved', lostSave)
  BY <1>4, <1>5, <1>6 DEF SavedOK
<1>9. \A i \in timers : TimerOK(i, account, saved')
  BY <1>7, InvFacts, SameServer, TimersGrow
<1>10. j.cooled <= ThrottleLimit /\ j.links <= Used(j)
  BY <1>3, <1>4 DEF JobOK, Used
<1>11. JobOK(j, account, saved', lostSave)
  BY <1>2, <1>3, <1>5, <1>10, EmptyResult DEF JobOK
<1>12. StatusOf(r) \in {"twofa_pending", "partial_success", "success"}
  BY DEF StatusOf
<1>13. /\ JobOK(job', account, saved', lostSave)
       /\ \A i \in timers' : TimerOK(i, account, saved')
       /\ rowStatus' \in {StatusOf(r), "queued"}
  BY <1>1, <1>3, <1>5, <1>9, <1>11, <1>12, StepSchedules
<1> QED BY <1>1, <1>8, <1>12, <1>13 DEF SetupInv

-------------------------------------------------------------------------------
(* What continues an account.                                                *)

LEMMA StepOperatorRetries ==
  ASSUME SetupInv, NEW mode \in {"twofa", "password"}, OperatorRetries(mode)
  PROVE  SetupInv'
<1>1. /\ job.at = "over" /\ manuals' = manuals + 1 /\ manuals < MaxManual
      /\ UNCHANGED <<account, saved, timers, lostSave, setupCrashes>>
  BY DEF OperatorRetries
<1>2. JobOK(job, account, saved, lostSave) /\ SavedOK(account, saved, lostSave)
  BY InvFacts
<1>3. /\ saved' = saved /\ saved' \in AccountResult /\ Honest(saved', account)
      /\ job \in SetupJob
  BY <1>1, <1>2, InvFacts DEF SavedOK
<1>4. /\ job.env.secret # 0 => saved'.secret # 0
      /\ Honest(job.env, account) /\ job.cooled <= ThrottleLimit
  BY <1>1, <1>2 DEF JobOK
<1>5. /\ FromResult \in SetupJob /\ FromResult.env = saved /\ FromResult.cooled = 0
  <2> DEFINE h == [NewJob EXCEPT !.at = "over"]
             k == [h EXCEPT !.env = saved]
  <2>1. h \in SetupJob /\ h.cooled = 0
    BY FirstJob, SetAt DEF SetupPlaces, SetupJob
  <2> HIDE DEF h
  <2>2. k \in SetupJob /\ k.env = saved /\ k.cooled = h.cooled
    BY <2>1, InvFacts, EnvStep DEF Follows
  <2>3. FromResult = k
    BY DEF FromResult, h
  <2> HIDE DEF k
  <2> QED BY <2>1, <2>2, <2>3
<1>6. JobOK(Continuation(job, mode, FALSE), account, saved', lostSave)
  BY <1>3, <1>4, ContinuationIs
<1>7. JobOK(Continuation(FromResult, mode, FALSE), account, saved', lostSave)
  <2>1. /\ Honest(FromResult.env, account) /\ FromResult.cooled <= ThrottleLimit
        /\ FromResult.env.secret # 0 => saved'.secret # 0
    BY <1>3, <1>5, SetupAssumption
  <2> QED BY <1>3, <1>5, <2>1, ContinuationIs
<1>8. /\ job' \in {Continuation(job, mode, FALSE), Continuation(FromResult, mode, FALSE)}
      /\ rowStatus' = "queued"
  BY DEF OperatorRetries, EnqueueRetry
<1>9. JobOK(job', account, saved', lostSave)
  BY <1>6, <1>7, <1>8
<1>10. manuals' \in 0..MaxManual
  BY <1>1, SetupAssumption DEF SetupInv
<1> QED BY <1>1, <1>3, <1>8, <1>9, <1>10 DEF SetupInv

LEMMA StepThrottleFires ==
  ASSUME SetupInv, NEW j \in timers, ThrottleFires(j)
  PROVE  SetupInv'
<1>1. /\ timers' = timers \ {j}
      /\ UNCHANGED <<account, saved, lostSave, manuals, setupCrashes>>
      /\ \/ UNCHANGED <<job, rowStatus>>
         \/ EnqueueRetry(j, "password", TRUE)
         \/ EnqueueRetry(j, "twofa", TRUE)
  BY DEF ThrottleFires
<1>2. TimerOK(j, account, saved) /\ SavedOK(account, saved, lostSave)
  BY InvFacts
<1>3. saved' = saved /\ saved' \in AccountResult /\ Honest(saved', account)
  BY <1>1, <1>2, InvFacts DEF SavedOK
<1>4. /\ j \in SetupJob /\ Honest(j.env, account) /\ (j.env.secret # 0 => saved'.secret # 0)
      /\ j.cooled <= ThrottleLimit /\ j.links + 1 <= Used(j)
  BY <1>2, <1>3 DEF TimerOK
<1>5. \A mode \in {"twofa", "password"} :
        JobOK(Continuation(j, mode, TRUE), account, saved', lostSave)
  <2> TAKE mode \in {"twofa", "password"}
  <2>1. j.links + 1 <= Lesser(j.tries + 1, TwofaLimit)
                         + Lesser(j.pwTries + PasswordAttempt(mode), PasswordLimit) + j.cooled
    BY <1>4, CooledAttempt
  <2> QED BY <1>3, <1>4, <2>1, ContinuationIs
<1>6. CASE UNCHANGED <<job, rowStatus>>
  BY <1>1, <1>6 DEF SetupInv
<1>7. CASE EnqueueRetry(j, "password", TRUE) \/ EnqueueRetry(j, "twofa", TRUE)
  <2>1. JobOK(job', account, saved', lostSave) /\ rowStatus' = "queued"
    BY <1>5, <1>7 DEF EnqueueRetry
  <2> QED BY <1>1, <2>1 DEF SetupInv
<1> QED BY <1>1, <1>6, <1>7

LEMMA StepSetupCrash == ASSUME SetupInv, SetupCrash PROVE SetupInv'
<1> DEFINE k == [job EXCEPT !.at = "over", !.env = job.prior, !.prior = NoResult, !.fresh = 0]
<1>1. /\ setupCrashes < MaxSetupCrashes /\ setupCrashes' = setupCrashes + 1
      /\ job' = job \/ job' = k
      /\ timers' = {}
      /\ rowStatus' = IF rowStatus \in {"queued", "running"} THEN "pending_rerun" ELSE rowStatus
      /\ UNCHANGED <<account, saved, lostSave, manuals>>
  BY DEF SetupCrash
<1>2. /\ k \in SetupJob /\ k.at = "over" /\ k.env = job.prior /\ k.prior = NoResult
      /\ k.tries = job.tries /\ k.pwTries = job.pwTries /\ k.cooled = job.cooled
      /\ k.links = job.links
  BY InvFacts, OverJob
<1> HIDE DEF k
<1>3. JobOK(job, account, saved, lostSave)
  BY InvFacts
<1>4. k.cooled <= ThrottleLimit /\ k.links <= Used(k)
  BY <1>2, <1>3 DEF JobOK, Used
<1>5. JobOK(k, account, saved, lostSave)
  BY <1>2, <1>3, <1>4, EmptyResult DEF JobOK
<1>6. JobOK(job', account, saved', lostSave')
  BY <1>1, <1>3, <1>5
<1>7. setupCrashes' \in 0..MaxSetupCrashes
  BY <1>1, SetupAssumption DEF SetupInv
<1> QED BY <1>1, <1>6, <1>7 DEF SetupInv

LEMMA SetupStart == SetupInit => SetupInv
<1> SUFFICES ASSUME SetupInit PROVE SetupInv
  OBVIOUS
<1>1. 0 \in Enrollments /\ 0 \in 0..MaxManual /\ 0 \in 0..MaxSetupCrashes
  BY SetupAssumption DEF Enrollments
<1>2. SavedOK(account, saved, lostSave)
  BY <1>1, EmptyResult DEF SetupInit, SavedOK, Accounts
<1>3. NewJob.cooled <= ThrottleLimit /\ NewJob.links <= Used(NewJob)
  BY FirstJob, SetupAssumption DEF Used, Lesser
<1>4. JobOK(job, account, saved, lostSave)
  BY <1>3, FirstJob, EmptyResult DEF SetupInit, JobOK
<1> QED BY <1>1, <1>2, <1>4 DEF SetupInit, SetupInv

LEMMA SetupStep == SetupInv /\ [SetupNext]_setupVars => SetupInv'
<1> SUFFICES ASSUME SetupInv, [SetupNext]_setupVars PROVE SetupInv'
  OBVIOUS
<1>1. ASSUME NEW used \in BOOLEAN, Registered(used) PROVE SetupInv'
  BY <1>1, StepRegistered
<1>2. CASE PasswordIneligible \/ PasswordAdds \/ PasswordPersists \/ PasswordDone
  BY <1>2, StepPasswordIneligible, StepPasswordAdds, StepPasswordPersists, StepPasswordDone
<1>3. ASSUME NEW kind \in FailKinds, PasswordFails(kind) \/ TwofaFails(kind) PROVE SetupInv'
  BY <1>3, StepPasswordFails, StepTwofaFails
<1>4. CASE FastPath \/ Reauthenticates \/ AlreadyEnabled
  BY <1>4, StepFastPath, StepReauthenticates, StepAlreadyEnabled
<1>5. CASE Enrolls \/ TwofaPersists \/ TwofaActivates \/ Finishes
  BY <1>5, StepEnrolls, StepTwofaPersists, StepTwofaActivates, StepFinishes
<1>6. ASSUME NEW mode \in {"twofa", "password"}, OperatorRetries(mode) PROVE SetupInv'
  BY <1>6, StepOperatorRetries
<1>7. ASSUME NEW j \in timers, ThrottleFires(j) PROVE SetupInv'
  BY <1>7, StepThrottleFires
<1>8. CASE SetupCrash
  BY <1>8, StepSetupCrash
<1>9. CASE UNCHANGED setupVars
  BY <1>9 DEF setupVars, SetupInv
<1> QED BY <1>1, <1>2, <1>3, <1>4, <1>5, <1>6, <1>7, <1>8, <1>9 DEF SetupNext

-------------------------------------------------------------------------------

\* Every reachable state of an account's setup is well formed: AccountSetup's state
\* variables range over what its actions say they do.
THEOREM SetupTypeCorrect == SetupSpec => []SetupTypeOK
<1>1. SetupInv => SetupTypeOK
  BY DEF SetupInv, SetupTypeOK, SavedOK, JobOK, TimerOK, Accounts
<1> QED BY <1>1, SetupStart, SetupStep, PTL DEF SetupSpec

\* The secret of an active second factor is in the account's result whatever answer was
\* lost, whichever attempt died and however often the account was continued, unless its
\* save was refused; and a result claims only what the server holds.
THEOREM CredentialsKept == SetupSpec => []CredentialsAreKept
<1>1. SetupInv => CredentialsAreKept
  BY DEF SetupInv, SavedOK, Honest, CredentialsAreKept
<1> QED BY <1>1, SetupStart, SetupStep, PTL DEF SetupSpec

\* A chain of automatic continuations, cool-downs included, is no longer than the three
\* budgets together.
THEOREM RetriesBounded == SetupSpec => []RetriesAreBounded
<1>1. SetupInv => RetriesAreBounded
  <2> SUFFICES ASSUME SetupInv PROVE RetriesAreBounded
    OBVIOUS
  <2>1. /\ job \in SetupJob /\ job.cooled <= ThrottleLimit
        /\ job.links <= Used(job)
    BY DEF SetupInv, JobOK
  <2>2. job.tries \in Nat /\ job.pwTries \in Nat /\ job.cooled \in Nat /\ job.links \in Nat
    BY <2>1, JobFields
  <2> QED BY <2>1, <2>2, SetupAssumption DEF Used, Lesser, RetriesAreBounded
<1> QED BY <1>1, SetupStart, SetupStep, PTL DEF SetupSpec

--------------------------------------------------------------------------------
\* Keys, numbers and orders.
\* Revisions: a call either knows the newest answer of a key or was overtaken by it.
RevisionInv ==
  /\ keyHealth \in [SmsKeys -> KeyStates]
  /\ matching \in [SmsKeys -> SUBSET (SmsTasks \cup Probes)]
  /\ overtaken \in [SmsKeys -> SUBSET (SmsTasks \cup Probes)]
  /\ \A k \in SmsKeys : matching[k] \cap overtaken[k] = {}

\* The phases in which a task names a key.
Keyed == Holding \cup {"spent", "priced"}

\* A key in use is the one its task names.
HeldInv ==
  /\ keyHeld \in [SmsKeys -> Nat]
  /\ orderAt \in [SmsTasks -> OrderPhases]
  /\ orderKey \in [SmsTasks -> SmsKeys \cup {NoKey, OldKey}]
  /\ \A t \in SmsTasks : orderAt[t] \in Keyed => orderKey[t] \in SmsKeys \cup {OldKey}
  /\ HeldExact

\* The phases in which a task has a number, and those in which it must.
Numbered == {"leased", "spent", "queued", "unqueued"}

\* A number has one task, from its sale until its cancellation is booked; the worker
\* sweeps rows of the queue only, and a leased number is in none of its files.
NumberInv ==
  /\ orderNo \in [SmsTasks -> Orders \cup {NoOrder}]
  /\ sold \in [Orders -> SaleStates]
  /\ costLedger \in [Orders -> BookStates]
  /\ cancelQueue \subseteq Orders /\ confirmedRows \subseteq Orders
  /\ sweep \subseteq cancelQueue /\ swept \subseteq cancelQueue
  /\ \A t \in SmsTasks : orderAt[t] \in Numbered => orderNo[t] \in Orders
  /\ \A t \in SmsTasks : orderNo[t] \in Orders => orderAt[t] \in Numbered \cup {"unusable"}
  /\ \A t, u \in SmsTasks : orderNo[t] = orderNo[u] /\ orderNo[t] \in Orders => t = u
  /\ \A t \in SmsTasks : orderNo[t] \in Orders => sold[orderNo[t]] # "unsold"
  /\ \A o \in cancelQueue : sold[o] # "unsold"
  /\ \A t \in SmsTasks : orderAt[t] = "leased" =>
        /\ sold[orderNo[t]] = "active"
        /\ orderNo[t] \notin cancelQueue \cup confirmedRows
  /\ \A t \in SmsTasks : orderAt[t] = "spent" =>
        sold[orderNo[t]] # "active" \/ costLedger[orderNo[t]] = "complete_error"
  /\ \A t \in SmsTasks : orderAt[t] = "queued" =>
        orderNo[t] \in cancelQueue \/ sold[orderNo[t]] # "active"
  /\ RefundIsReal

RestInv ==
  /\ probing \in Probes \cup {NoProbe} /\ probeLeft \in [Probes -> SUBSET SmsKeys]
  /\ skipped \in BOOLEAN
  /\ tried \in [SmsTasks -> SUBSET SmsKeys] /\ attempts \in [SmsTasks -> 0..NumberBudget]
  /\ smsCrashes \in 0..MaxSmsCrashes

SmsInv == RevisionInv /\ HeldInv /\ NumberInv /\ RestInv

-------------------------------------------------------------------------------
(* Revisions.                                                                *)

LEMMA RevisionSame ==
  ASSUME RevisionInv, UNCHANGED <<keyHealth, matching, overtaken>> PROVE RevisionInv'
  BY DEF RevisionInv

LEMMA RevisionRecorded ==
  ASSUME RevisionInv, NEW k, NEW status \in KeyStates, KeyRecorded(k, status)
  PROVE  RevisionInv'
  BY DEF RevisionInv, KeyRecorded

LEMMA RevisionRead ==
  ASSUME RevisionInv, NEW k, NEW t \in SmsTasks \cup Probes, Reads(k, t), UNCHANGED keyHealth
  PROVE  RevisionInv'
  BY DEF RevisionInv, Reads

LEMMA RevisionReported ==
  ASSUME RevisionInv, NEW t, NEW kind \in KeyErrors, KeyReported(t, kind)
  PROVE  RevisionInv'
<1>1. RuntimeStatus(kind) \in KeyStates
  BY DEF KeyErrors, RuntimeStatus, KeyStates, Dead
<1> QED BY <1>1, RevisionRecorded, RevisionSame DEF KeyReported

LEMMA RevisionSuccess ==
  ASSUME RevisionInv, NEW t, SuccessCounts(t) PROVE RevisionInv'
<1>1. "usable" \in KeyStates
  BY DEF KeyStates
<1> QED BY <1>1, RevisionRecorded, RevisionSame DEF SuccessCounts

-------------------------------------------------------------------------------
(* Keys in use.                                                              *)

LEMMA HeldFacts ==
  ASSUME HeldInv, NEW k \in SmsKeys
  PROVE  /\ IsFiniteSet(HeldBy(k)) /\ HeldBy(k) \subseteq SmsTasks
         /\ keyHeld[k] = Cardinality(HeldBy(k)) /\ keyHeld[k] \in Nat
<1>1. HeldBy(k) \in SUBSET SmsTasks
  BY DEF HeldBy
<1> QED BY <1>1, FS_Subset, SmsAssumption DEF HeldInv, HeldExact

LEMMA HeldSame ==
  ASSUME HeldInv, UNCHANGED <<keyHeld, orderAt, orderKey>> PROVE HeldInv'
  BY DEF HeldInv, HeldExact, HeldBy

\* A task that keeps its key, or has none before and after.
LEMMA HeldKept ==
  ASSUME HeldInv, NEW t \in SmsTasks, NEW a \in OrderPhases,
         orderAt' = [orderAt EXCEPT ![t] = a], UNCHANGED keyHeld,
         \/ /\ UNCHANGED orderKey
            /\ orderAt[t] \in Holding <=> a \in Holding
            /\ a \in Keyed => orderAt[t] \in Keyed
         \/ /\ orderKey' = [orderKey EXCEPT ![t] = NoKey]
            /\ orderAt[t] \notin Holding /\ a \notin Keyed
  PROVE  HeldInv'
<1>1. \A u \in SmsTasks : /\ u # t => orderAt'[u] = orderAt[u] /\ orderKey'[u] = orderKey[u]
                          /\ orderAt'[t] = a
  BY DEF HeldInv
<1>2. ASSUME NEW k \in SmsKeys PROVE HeldBy(k)' = HeldBy(k)
  BY <1>1, SmsAssumption DEF HeldBy, Holding, Keyed
<1>3. HeldExact'
  BY <1>2 DEF HeldExact, HeldInv
<1>4. /\ orderAt' \in [SmsTasks -> OrderPhases]
      /\ orderKey' \in [SmsTasks -> SmsKeys \cup {NoKey, OldKey}]
  BY DEF HeldInv
<1>5. \A u \in SmsTasks : orderAt'[u] \in Keyed => orderKey'[u] \in SmsKeys \cup {OldKey}
  BY <1>1 DEF HeldInv
<1> QED BY <1>3, <1>4, <1>5 DEF HeldInv

LEMMA HeldTaken ==
  ASSUME HeldInv, NEW t \in SmsTasks, NEW k \in SmsKeys, orderAt[t] \in {"chosen", "pricing"},
         NEW a \in {"asking", "querying"},
         orderAt' = [orderAt EXCEPT ![t] = a],
         orderKey' = [orderKey EXCEPT ![t] = k],
         keyHeld' = [keyHeld EXCEPT ![k] = @ + 1]
  PROVE  HeldInv'
<1>1. HeldBy(k)' = HeldBy(k) \cup {t} /\ t \notin HeldBy(k)
  BY DEF HeldInv, HeldBy, Holding
<1>2. ASSUME NEW j \in SmsKeys, j # k PROVE HeldBy(j)' = HeldBy(j)
  BY <1>2 DEF HeldInv, HeldBy, Holding
<1>3. Cardinality(HeldBy(k)') = Cardinality(HeldBy(k)) + 1
  BY <1>1, HeldFacts, FS_AddElement
<1>4. ASSUME NEW j \in SmsKeys PROVE keyHeld'[j] = Cardinality(HeldBy(j)')
  <2>1. CASE j = k
    BY <1>3, <2>1, HeldFacts DEF HeldInv
  <2>2. CASE j # k
    BY <1>2, <2>2, HeldFacts DEF HeldInv
  <2> QED BY <2>1, <2>2
<1>5. HeldExact'
  BY <1>4 DEF HeldExact
<1> QED BY <1>5 DEF HeldInv, OrderPhases

\* The key goes back, once; a replaced one to nobody.
LEMMA HeldReturned ==
  ASSUME HeldInv, NEW t \in SmsTasks, orderAt[t] \in Holding,
         orderAt' = [orderAt EXCEPT ![t] = orderAt'[t]],
         orderAt'[t] \in OrderPhases, orderAt'[t] \notin Holding,
         \/ orderKey' = [orderKey EXCEPT ![t] = NoKey] /\ orderAt'[t] \notin Keyed
         \/ UNCHANGED orderKey,
         orderKey[t] # OldKey => keyHeld' = ReleasedKey(orderKey[t]),
         orderKey[t] = OldKey => UNCHANGED keyHeld
  PROVE  HeldInv'
<1>1. PICK k \in SmsKeys \cup {OldKey} : k = orderKey[t]
  BY DEF HeldInv, Keyed
<1>2. \A u \in SmsTasks : u # t => orderAt'[u] = orderAt[u] /\ orderKey'[u] = orderKey[u]
  BY DEF HeldInv
<1>3. /\ k # OldKey => keyHeld' = ReleasedKey(k)
      /\ k = OldKey => UNCHANGED keyHeld
  BY <1>1
<1>4. ASSUME NEW j \in SmsKeys PROVE HeldBy(j)' = HeldBy(j) \ {t}
  BY <1>2 DEF HeldBy
<1>5. ASSUME NEW j \in SmsKeys, j # k PROVE HeldBy(j)' = HeldBy(j)
  BY <1>1, <1>4, <1>5 DEF HeldBy
<1>6. keyHeld \in [SmsKeys -> Nat]
  BY DEF HeldInv
<1>7. HeldExact' /\ keyHeld' \in [SmsKeys -> Nat]
  <2>1. CASE k = OldKey
    <3>1. UNCHANGED keyHeld
      BY <1>3, <2>1
    <3>2. \A j \in SmsKeys : HeldBy(j)' = HeldBy(j)
      BY <1>5, <2>1, SmsAssumption
    <3> QED BY <1>6, <3>1, <3>2, HeldFacts DEF HeldExact
  <2>2. CASE k \in SmsKeys
    <3>1. t \in HeldBy(k) /\ HeldBy(k)' = HeldBy(k) \ {t}
      BY <1>1, <1>4, <2>2 DEF HeldBy
    <3>2. /\ Cardinality(HeldBy(k)') = Cardinality(HeldBy(k)) - 1
          /\ Cardinality(HeldBy(k)') \in Nat
      BY <2>2, <3>1, HeldFacts, FS_RemoveElement, FS_CardinalityType
    <3>3. keyHeld' = [keyHeld EXCEPT ![k] = OneLess(keyHeld[k])]
      BY <1>3, <2>2, SmsAssumption DEF ReleasedKey
    <3>4. OneLess(keyHeld[k]) = Cardinality(HeldBy(k)')
      BY <2>2, <3>2, HeldFacts DEF OneLess, Greater
    <3>5. ASSUME NEW j \in SmsKeys PROVE keyHeld'[j] = Cardinality(HeldBy(j)')
      <4>1. CASE j = k
        BY <1>6, <2>2, <3>3, <3>4, <4>1
      <4>2. CASE j # k
        BY <1>5, <1>6, <2>2, <3>3, <4>2, HeldFacts
      <4> QED BY <4>1, <4>2
    <3>6. HeldExact'
      BY <3>5 DEF HeldExact
    <3>7. keyHeld' \in [SmsKeys -> Nat]
      BY <1>6, <2>2, <3>2, <3>3, <3>4
    <3> QED BY <3>6, <3>7
  <2> QED BY <1>1, <2>1, <2>2
<1>8. /\ orderAt' \in [SmsTasks -> OrderPhases]
      /\ orderKey' \in [SmsTasks -> SmsKeys \cup {NoKey, OldKey}]
  BY DEF HeldInv
<1>9. \A u \in SmsTasks : orderAt'[u] \in Keyed => orderKey'[u] \in SmsKeys \cup {OldKey}
  BY <1>1, <1>2 DEF HeldInv
<1> QED BY <1>7, <1>8, <1>9 DEF HeldInv

\* What _release_state leaves, as facts.
LEMMA ReleaseFacts ==
  ASSUME NEW t, Released(t), skipped \in BOOLEAN
  PROVE  /\ orderKey[t] # OldKey => keyHeld' = ReleasedKey(orderKey[t])
         /\ orderKey[t] = OldKey => UNCHANGED keyHeld
         /\ skipped' \in BOOLEAN
<1>1. skipped' \in BOOLEAN
  BY Zenon DEF Released
<1> QED BY <1>1, Zenon DEF Released

LEMMA FinishFacts ==
  ASSUME NEW t, FinishReleases(t), skipped \in BOOLEAN
  PROVE  /\ orderAt[t] = "leased" /\ orderKey[t] # OldKey => keyHeld' = ReleasedKey(orderKey[t])
         /\ orderAt[t] = "leased" /\ orderKey[t] = OldKey => UNCHANGED keyHeld
         /\ orderAt[t] # "leased" => UNCHANGED keyHeld
         /\ skipped' \in BOOLEAN
  BY ReleaseFacts DEF FinishReleases

\* The end of a number, with or without its key.
LEMMA HeldFinished ==
  ASSUME HeldInv, NEW t \in SmsTasks, orderAt[t] \in {"leased", "spent"},
         NEW a \in {"idle", "queued", "unqueued"},
         orderAt' = [orderAt EXCEPT ![t] = a],
         orderKey' = [orderKey EXCEPT ![t] = NoKey], FinishReleases(t), skipped \in BOOLEAN
  PROVE  HeldInv'
<1>1. a \in OrderPhases /\ a \notin Holding /\ a \notin Keyed
  BY DEF OrderPhases, Holding, Keyed
<1>2. CASE orderAt[t] = "leased"
  <2>1. /\ orderKey[t] # OldKey => keyHeld' = ReleasedKey(orderKey[t])
        /\ orderKey[t] = OldKey => UNCHANGED keyHeld
    BY <1>2, FinishFacts
  <2>2. orderAt[t] \in Holding
    BY <1>2 DEF Holding
  <2>3. orderAt'[t] = a /\ orderAt' = [orderAt EXCEPT ![t] = orderAt'[t]]
    BY DEF HeldInv
  <2> QED BY <1>1, <2>1, <2>2, <2>3, HeldReturned
<1>3. CASE orderAt[t] = "spent"
  <2>1. UNCHANGED keyHeld
    BY <1>3, FinishFacts
  <2> QED BY <1>1, <1>3, <2>1, HeldKept DEF Holding
<1> QED BY <1>2, <1>3

LEMMA NobodyHolds ==
  ASSUME \A t \in SmsTasks : orderAt[t] \notin Holding, NEW k PROVE Cardinality(HeldBy(k)) = 0
<1>1. HeldBy(k) = {}
  BY DEF HeldBy
<1> QED BY <1>1, FS_EmptySet

LEMMA NobodyHoldsNext ==
  ASSUME \A t \in SmsTasks : orderAt'[t] \notin Holding, NEW k PROVE Cardinality(HeldBy(k)') = 0
<1>1. HeldBy(k)' = {}
  BY DEF HeldBy
<1> QED BY <1>1, FS_EmptySet

-------------------------------------------------------------------------------
(* Numbers.                                                                  *)

\* What MoneyIsAccounted says of one step.
MoneyStep == \A o \in Orders : SoldIntoHand(o) /\ StaysInHand(o)

LEMMA NumberSame ==
  ASSUME NumberInv, UNCHANGED <<orderAt, orderNo, bookedVars, cleanupVars>> PROVE NumberInv'
  BY DEF NumberInv, RefundIsReal, bookedVars, cleanupVars

LEMMA MoneySame ==
  ASSUME UNCHANGED <<orderNo, sold, costLedger, cancelQueue>> PROVE MoneyStep
  BY DEF MoneyStep, SoldIntoHand, StaysInHand, InHand

\* What changes of a number that a task has: it is still in hand afterwards, or not
\* paid for any more.
LEMMA MoneyOwn ==
  ASSUME NumberInv, NEW t \in SmsTasks, NEW o \in Orders, o = orderNo[t],
         \A u \in SmsTasks : u # t => orderNo'[u] = orderNo[u],
         \A x \in Orders : x # o => sold'[x] = sold[x] /\ costLedger'[x] = costLedger[x],
         cancelQueue \subseteq cancelQueue',
         \/ sold'[o] # "active" \/ orderNo'[t] = o \/ o \in cancelQueue'
         \/ costLedger'[o] \in {"cancel_failed", "complete_error"}
         \/ orderAt[t] = "unusable"
  PROVE  MoneyStep
<1>1. ASSUME NEW x \in Orders PROVE SoldIntoHand(x)
  BY DEF NumberInv, SoldIntoHand
<1>2. ASSUME NEW x \in Orders PROVE StaysInHand(x)
  <2>1. CASE x = o
    BY <2>1 DEF StaysInHand, InHand, GoesAstray
  <2>2. CASE x # o
    BY <2>2 DEF StaysInHand, InHand
  <2> QED BY <2>1, <2>2
<1> QED BY <1>1, <1>2 DEF MoneyStep

\* A task without a number moves on; the platform may have sold one it never hears of.
LEMMA NumberUnused ==
  ASSUME NumberInv, HeldInv, NEW t \in SmsTasks, orderNo[t] \notin Orders,
         NEW a \in OrderPhases, a \notin Numbered, orderAt' = [orderAt EXCEPT ![t] = a],
         UNCHANGED <<orderNo, costLedger, cleanupVars>>,
         \/ UNCHANGED sold
         \/ \E o \in Orders : sold[o] = "unsold" /\ sold' = [sold EXCEPT ![o] = "active"]
  PROVE  NumberInv'
<1>1. /\ orderAt'[t] = a
      /\ \A u \in SmsTasks : u # t => orderAt'[u] = orderAt[u]
  BY DEF HeldInv
<1>2. /\ sold' \in [Orders -> SaleStates]
      /\ \A o \in Orders : sold[o] # "unsold" => sold'[o] = sold[o]
  BY DEF NumberInv, SaleStates
<1>3. RefundIsReal'
  BY <1>2 DEF NumberInv, RefundIsReal, cleanupVars
<1>4. /\ \A u \in SmsTasks : orderAt'[u] \in Numbered => orderAt'[u] = orderAt[u] /\ orderNo[u] \in Orders
      /\ \A u \in SmsTasks : orderNo[u] \in Orders => orderAt'[u] = orderAt[u]
  BY <1>1 DEF NumberInv
<1>5. \A u \in SmsTasks : orderNo[u] \in Orders => sold'[orderNo[u]] = sold[orderNo[u]]
  BY <1>2 DEF NumberInv
<1>6. /\ \A u \in SmsTasks : orderAt'[u] \in Numbered => orderNo'[u] \in Orders
      /\ \A u \in SmsTasks : orderNo'[u] \in Orders => orderAt'[u] \in Numbered \cup {"unusable"}
      /\ \A u \in SmsTasks : orderNo'[u] \in Orders => sold'[orderNo'[u]] # "unsold"
  BY <1>4, <1>5 DEF NumberInv
<1>7. \A o \in cancelQueue' : sold'[o] # "unsold"
  BY <1>2 DEF NumberInv, cleanupVars
<1>8. /\ \A u \in SmsTasks : orderAt'[u] = "leased" =>
            /\ sold'[orderNo'[u]] = "active"
            /\ orderNo'[u] \notin cancelQueue' \cup confirmedRows'
      /\ \A u \in SmsTasks : orderAt'[u] = "spent" =>
            sold'[orderNo'[u]] # "active" \/ costLedger'[orderNo'[u]] = "complete_error"
      /\ \A u \in SmsTasks : orderAt'[u] = "queued" =>
            orderNo'[u] \in cancelQueue' \/ sold'[orderNo'[u]] # "active"
  BY <1>4, <1>5 DEF NumberInv, Numbered, cleanupVars
<1> QED BY <1>2, <1>3, <1>6, <1>7, <1>8 DEF NumberInv, cleanupVars

\* A task that is asking gets a number.
LEMMA NumberGot ==
  ASSUME NumberInv, HeldInv, NEW t \in SmsTasks, orderAt[t] = "asking",
         NEW o \in Orders, sold[o] = "unsold", NEW a \in {"leased", "unusable"},
         orderAt' = [orderAt EXCEPT ![t] = a], orderNo' = [orderNo EXCEPT ![t] = o],
         sold' = [sold EXCEPT ![o] = "active"],
         costLedger' = [costLedger EXCEPT ![o] = costLedger'[o]],
         costLedger'[o] \in {costLedger[o], "leased"},
         UNCHANGED cleanupVars
  PROVE  NumberInv' /\ MoneyStep
<1>1. /\ orderAt'[t] = a /\ orderNo'[t] = o
      /\ \A u \in SmsTasks : u # t => orderAt'[u] = orderAt[u] /\ orderNo'[u] = orderNo[u]
  BY DEF HeldInv, NumberInv
<1>2. \A u \in SmsTasks : orderNo[u] # o
  BY DEF NumberInv
<1>3. orderNo[t] \notin Orders
  BY DEF NumberInv, Numbered
<1>4. o \notin cancelQueue /\ o \notin confirmedRows /\ o \notin swept
  BY DEF NumberInv, RefundIsReal
<1>5. /\ sold'[o] = "active" /\ costLedger'[o] # "cancelled"
      /\ \A x \in Orders : x # o => sold'[x] = sold[x] /\ costLedger'[x] = costLedger[x]
      /\ sold' \in [Orders -> SaleStates]
  BY DEF NumberInv, RefundIsReal, SaleStates
<1>6. costLedger' \in [Orders -> BookStates]
  BY DEF NumberInv, BookStates
<1>7. RefundIsReal'
  BY <1>4, <1>5 DEF NumberInv, RefundIsReal, cleanupVars
<1>8. orderNo' \in [SmsTasks -> Orders \cup {NoOrder}]
  BY DEF NumberInv
<1>9. /\ \A u \in SmsTasks : orderAt'[u] \in Numbered => orderNo'[u] \in Orders
      /\ \A u \in SmsTasks : orderNo'[u] \in Orders => orderAt'[u] \in Numbered \cup {"unusable"}
      /\ \A u \in SmsTasks : orderNo'[u] \in Orders => sold'[orderNo'[u]] # "unsold"
  BY <1>1, <1>2, <1>5 DEF NumberInv, Numbered
<1>10. \A u, v \in SmsTasks : orderNo'[u] = orderNo'[v] /\ orderNo'[u] \in Orders => u = v
  BY <1>1, <1>2 DEF NumberInv
<1>11. \A x \in cancelQueue' : sold'[x] # "unsold"
  BY <1>4, <1>5 DEF NumberInv, cleanupVars
<1>12. ASSUME NEW u \in SmsTasks
       PROVE  /\ orderAt'[u] = "leased" =>
                   /\ sold'[orderNo'[u]] = "active"
                   /\ orderNo'[u] \notin cancelQueue' \cup confirmedRows'
              /\ orderAt'[u] = "spent" =>
                   sold'[orderNo'[u]] # "active" \/ costLedger'[orderNo'[u]] = "complete_error"
              /\ orderAt'[u] = "queued" =>
                   orderNo'[u] \in cancelQueue' \/ sold'[orderNo'[u]] # "active"
  <2>1. CASE u = t
    BY <1>1, <1>4, <1>5, <2>1 DEF cleanupVars
  <2>2. CASE u # t
    BY <1>1, <1>2, <1>5, <2>2 DEF NumberInv, Numbered, cleanupVars
  <2> QED BY <2>1, <2>2
<1>13. NumberInv'
  BY <1>5, <1>6, <1>7, <1>8, <1>9, <1>10, <1>11, <1>12 DEF NumberInv, cleanupVars
<1>14. ASSUME NEW x \in Orders PROVE SoldIntoHand(x) /\ StaysInHand(x)
  <2>1. CASE x = o
    BY <1>1, <1>5, <2>1 DEF SoldIntoHand, StaysInHand, InHand
  <2>2. CASE x # o
    BY <1>1, <1>3, <1>5, <2>2 DEF SoldIntoHand, StaysInHand, InHand, cleanupVars
  <2> QED BY <2>1, <2>2
<1> QED BY <1>13, <1>14 DEF MoneyStep

\* A number handed back by its task, settled or in the queue.
LEMMA NumberEnds ==
  ASSUME NumberInv, HeldInv, NEW t \in SmsTasks,
         orderNo[t] \in Orders, NEW o, o = orderNo[t],
         orderAt' = [orderAt EXCEPT ![t] = "idle"],
         orderNo' = [orderNo EXCEPT ![t] = NoOrder],
         sold' = [sold EXCEPT ![o] = sold'[o]],
         costLedger' = [costLedger EXCEPT ![o] = costLedger'[o]],
         UNCHANGED cleanupVars,
         sold'[o] \in {"active", "cancelled", "completed"},
         costLedger'[o] \in BookStates,
         sold[o] = "cancelled" => sold'[o] = "cancelled",
         o \in confirmedRows \cup swept => sold'[o] = "cancelled",
         costLedger'[o] = "cancelled" => sold'[o] = "cancelled"
  PROVE  NumberInv'
<1>1. /\ orderNo'[t] = NoOrder /\ orderAt'[t] = "idle"
      /\ \A u \in SmsTasks : u # t => /\ orderNo'[u] = orderNo[u] /\ orderAt'[u] = orderAt[u]
                                     /\ orderNo[u] # o
  BY DEF NumberInv, HeldInv
<1>2. \A x \in Orders : x # o => sold'[x] = sold[x] /\ costLedger'[x] = costLedger[x]
  BY DEF NumberInv
<1>3. RefundIsReal'
  BY <1>2 DEF NumberInv, RefundIsReal, cleanupVars
<1>4. /\ orderNo' \in [SmsTasks -> Orders \cup {NoOrder}]
      /\ sold' \in [Orders -> SaleStates] /\ costLedger' \in [Orders -> BookStates]
  BY DEF NumberInv, SaleStates
<1>5. /\ cancelQueue' \subseteq Orders /\ confirmedRows' \subseteq Orders
      /\ sweep' \subseteq cancelQueue' /\ swept' \subseteq cancelQueue'
      /\ \A x \in cancelQueue' : sold'[x] # "unsold"
  BY <1>2 DEF NumberInv, cleanupVars
<1>6. /\ \A u \in SmsTasks : orderAt'[u] \in Numbered => orderNo'[u] \in Orders
      /\ \A u \in SmsTasks : orderNo'[u] \in Orders => orderAt'[u] \in Numbered \cup {"unusable"}
      /\ \A u, v \in SmsTasks : orderNo'[u] = orderNo'[v] /\ orderNo'[u] \in Orders => u = v
  BY <1>1, SmsAssumption DEF NumberInv, Numbered
<1>7. \A u \in SmsTasks : orderNo'[u] \in Orders => sold'[orderNo'[u]] # "unsold"
  BY <1>1, <1>2, SmsAssumption DEF NumberInv
<1>8. ASSUME NEW u \in SmsTasks
      PROVE  /\ orderAt'[u] = "leased" =>
                  /\ sold'[orderNo'[u]] = "active"
                  /\ orderNo'[u] \notin cancelQueue' \cup confirmedRows'
             /\ orderAt'[u] = "spent" =>
                  sold'[orderNo'[u]] # "active" \/ costLedger'[orderNo'[u]] = "complete_error"
             /\ orderAt'[u] = "queued" =>
                  orderNo'[u] \in cancelQueue' \/ sold'[orderNo'[u]] # "active"
  <2>1. CASE u = t
    BY <1>1, <2>1
  <2>2. CASE u # t
    BY <1>1, <1>2, <2>2 DEF NumberInv, Numbered, cleanupVars
  <2> QED BY <2>1, <2>2
<1> QED BY <1>3, <1>4, <1>5, <1>6, <1>7, <1>8 DEF NumberInv

\* A number its task keeps for its cancellation.
LEMMA NumberKept ==
  ASSUME NumberInv, HeldInv, NEW t \in SmsTasks, orderAt[t] \in {"leased", "spent"},
         NEW o \in Orders, o = orderNo[t], orderAt'[t] \in {"spent", "queued", "unqueued"},
         orderAt' = [orderAt EXCEPT ![t] = orderAt'[t]],
         sold' = [sold EXCEPT ![o] = sold'[o]],
         costLedger' = [costLedger EXCEPT ![o] = costLedger'[o]],
         costLedger'[o] \in {"complete_error", "cancel_pending"},
         orderAt'[t] = "spent" => costLedger'[o] = "complete_error",
         UNCHANGED <<orderNo, confirmedRows, sweep, swept>>,
         cancelQueue' = cancelQueue \/ cancelQueue' = cancelQueue \cup {o},
         \/ sold'[o] = sold[o]
         \/ sold'[o] = "completed" /\ orderAt[t] = "leased"
         \/ sold'[o] = "cancelled",
         orderAt'[t] = "queued" => o \in cancelQueue' \/ sold'[o] # "active"
  PROVE  NumberInv' /\ MoneyStep
<1>1. sold[o] # "unsold"
  BY DEF NumberInv, Numbered
<1>2. \A u \in SmsTasks : u # t => orderNo[u] # o /\ orderAt'[u] = orderAt[u]
  BY <1>1 DEF NumberInv, HeldInv
<1>4. \A x \in Orders : x # o => sold'[x] = sold[x] /\ costLedger'[x] = costLedger[x]
  BY DEF NumberInv
<1>5. /\ sold' \in [Orders -> SaleStates] /\ costLedger' \in [Orders -> BookStates]
      /\ sold'[o] # "unsold"
  BY <1>1 DEF NumberInv, SaleStates, BookStates
<1>6. sold[o] = "cancelled" => sold'[o] = "cancelled"
  BY DEF NumberInv
<1>7. RefundIsReal'
  <2>1. o \in confirmedRows \cup swept => sold'[o] = "cancelled"
    BY <1>6 DEF NumberInv, RefundIsReal
  <2> QED BY <1>1, <1>4, <2>1 DEF NumberInv, RefundIsReal
<1>8. /\ cancelQueue' \subseteq Orders /\ confirmedRows' \subseteq Orders
      /\ sweep' \subseteq cancelQueue' /\ swept' \subseteq cancelQueue'
      /\ \A x \in cancelQueue' : sold'[x] # "unsold"
  BY <1>1, <1>4, <1>5 DEF NumberInv
<1>9. /\ \A u \in SmsTasks : orderAt'[u] \in Numbered => orderNo'[u] \in Orders
      /\ \A u \in SmsTasks : orderNo'[u] \in Orders => orderAt'[u] \in Numbered \cup {"unusable"}
  BY <1>1, <1>2 DEF NumberInv, Numbered
<1>10. \A u \in SmsTasks : orderNo'[u] \in Orders => sold'[orderNo'[u]] # "unsold"
  BY <1>4, <1>5 DEF NumberInv
<1>11. ASSUME NEW u \in SmsTasks
       PROVE  /\ orderAt'[u] = "leased" =>
                   /\ sold'[orderNo'[u]] = "active"
                   /\ orderNo'[u] \notin cancelQueue' \cup confirmedRows'
              /\ orderAt'[u] = "spent" =>
                   sold'[orderNo'[u]] # "active" \/ costLedger'[orderNo'[u]] = "complete_error"
              /\ orderAt'[u] = "queued" =>
                   orderNo'[u] \in cancelQueue' \/ sold'[orderNo'[u]] # "active"
  <2>1. CASE u = t
    BY <2>1
  <2>2. CASE u # t
    BY <1>2, <1>4, <2>2 DEF NumberInv, Numbered
  <2> QED BY <2>1, <2>2
<1>12. /\ orderNo' \in [SmsTasks -> Orders \cup {NoOrder}]
       /\ \A u, v \in SmsTasks : orderNo'[u] = orderNo'[v] /\ orderNo'[u] \in Orders => u = v
  BY DEF NumberInv
<1>13. NumberInv'
  BY <1>5, <1>7, <1>8, <1>9, <1>10, <1>11, <1>12 DEF NumberInv
<1>14. MoneyStep
  <2>1. /\ orderNo'[t] = o /\ \A u \in SmsTasks : u # t => orderNo'[u] = orderNo[u]
        /\ cancelQueue \subseteq cancelQueue'
    OBVIOUS
  <2> QED BY <1>1, <1>4, <2>1, MoneyOwn
<1> QED BY <1>13, <1>14

-------------------------------------------------------------------------------
(* The actions on keys.                                                      *)

LEMMA SmsParts == SmsInv => RevisionInv /\ HeldInv /\ NumberInv /\ RestInv
  BY DEF SmsInv

\* Only the keys' health and the probes move.
LEMMA KeyStep ==
  ASSUME SmsInv, RevisionInv', RestInv', UNCHANGED <<keyHeld, orderAt, orderKey, orderNo>>,
         UNCHANGED <<bookedVars, cleanupVars>>
  PROVE  SmsInv' /\ MoneyStep
<1>1. SmsInv'
  BY SmsParts, HeldSame, NumberSame DEF SmsInv
<1> QED BY <1>1, MoneySame DEF bookedVars, cleanupVars

LEMMA RestSame ==
  ASSUME RestInv, UNCHANGED <<probing, probeLeft, skipped, tried, attempts, smsCrashes>>
  PROVE  RestInv'
  BY DEF RestInv

LEMMA StepCooldownOver ==
  ASSUME SmsInv, NEW k \in SmsKeys, CooldownOver(k) PROVE SmsInv' /\ MoneyStep
<1>1. RevisionInv'
  BY SmsParts DEF CooldownOver, RevisionInv, KeyStates
<1>2. RestInv'
  BY SmsParts, RestSame DEF CooldownOver, orderVars
<1> QED BY <1>1, <1>2, KeyStep DEF CooldownOver, orderVars

LEMMA StepConfigureKeys == ASSUME SmsInv, ConfigureKeys PROVE SmsInv' /\ MoneyStep
<1>1. RevisionInv'
  BY SmsParts DEF ConfigureKeys, RevisionInv, KeyStates
<1>2. RestInv'
  BY SmsParts DEF ConfigureKeys, orderVars, RestInv
<1> QED BY <1>1, <1>2, KeyStep DEF ConfigureKeys, orderVars

\* Nobody holds a state of the new list.
LEMMA StepReplaceKeys ==
  ASSUME SmsInv, NEW kept \in SUBSET SmsKeys, ReplaceKeys(kept) PROVE SmsInv' /\ MoneyStep
<1>1. RevisionInv'
  BY SmsParts DEF ReplaceKeys, RevisionInv, KeyStates
<1>2. /\ \A t \in SmsTasks : orderKey'[t] = IF orderKey[t] = NoKey THEN NoKey ELSE OldKey
      /\ orderKey' \in [SmsTasks -> {NoKey, OldKey}]
      /\ orderAt' = orderAt
      /\ \A k \in SmsKeys : keyHeld'[k] = 0
      /\ keyHeld' \in [SmsKeys -> Nat]
  BY DEF ReplaceKeys
<1>3. HeldInv'
  <2>1. ASSUME NEW k \in SmsKeys PROVE HeldBy(k)' = {}
    BY <1>2, SmsAssumption DEF HeldBy
  <2>2. HeldExact'
    BY <1>2, <2>1, FS_EmptySet DEF HeldExact
  <2>3. \A t \in SmsTasks : orderAt'[t] \in Keyed => orderKey'[t] \in SmsKeys \cup {OldKey}
    BY <1>2, SmsParts, SmsAssumption DEF HeldInv
  <2>4. /\ orderAt' \in [SmsTasks -> OrderPhases]
        /\ orderKey' \in [SmsTasks -> SmsKeys \cup {NoKey, OldKey}]
    BY <1>2, SmsParts DEF HeldInv
  <2> QED BY <1>2, <2>2, <2>3, <2>4 DEF HeldInv
<1>4. NumberInv' /\ MoneyStep
  BY SmsParts, NumberSame, MoneySame DEF ReplaceKeys, bookedVars, cleanupVars
<1>5. RestInv'
  BY SmsParts DEF ReplaceKeys, RestInv
<1> QED BY <1>1, <1>3, <1>4, <1>5 DEF SmsInv

LEMMA StepStartProbe ==
  ASSUME SmsInv, NEW p \in Probes, StartProbe(p) PROVE SmsInv' /\ MoneyStep
<1>1. RevisionInv'
  BY SmsParts DEF StartProbe, RevisionInv
<1>2. RestInv'
  BY SmsParts DEF StartProbe, orderVars, RestInv, Present
<1> QED BY <1>1, <1>2, KeyStep DEF StartProbe, orderVars

LEMMA StepWriteProbe ==
  ASSUME SmsInv, NEW p \in Probes, NEW k \in SmsKeys, NEW status \in ProbeAnswers,
         WriteProbe(p, k, status)
  PROVE  SmsInv' /\ MoneyStep
<1>1. status \in KeyStates
  BY DEF ProbeAnswers, KeyStates
<1>2. RevisionInv'
  BY <1>1, SmsParts, RevisionSame, RevisionRecorded DEF WriteProbe
<1>3. RestInv'
  BY SmsParts DEF WriteProbe, orderVars, RestInv
<1> QED BY <1>2, <1>3, KeyStep DEF WriteProbe, orderVars

LEMMA StepFindExhausted == ASSUME SmsInv, FindExhausted PROVE SmsInv' /\ MoneyStep
<1>1. RevisionInv'
  BY SmsParts, RevisionSame DEF FindExhausted
<1>2. RestInv'
  BY SmsParts DEF FindExhausted, RestInv, orderVars
<1> QED BY <1>1, <1>2, KeyStep DEF FindExhausted, orderVars

-------------------------------------------------------------------------------
(* Asking a platform.                                                        *)

\* A task has a number only after its request.
LEMMA NoNumberYet ==
  ASSUME SmsInv, NEW t \in SmsTasks,
         orderAt[t] \in {"idle", "pricing", "querying", "priced", "chosen", "asking"}
  PROVE  orderNo[t] \notin Orders
  BY SmsParts DEF NumberInv, Numbered

LEMMA StepChoosePlatform ==
  ASSUME SmsInv, NEW t \in SmsTasks, ChoosePlatform(t) PROVE SmsInv' /\ MoneyStep
<1>1. RevisionInv'
  BY SmsParts, RevisionSame DEF ChoosePlatform, keyVars
<1>2. PICK a \in {"chosen", "pricing"} : orderAt' = [orderAt EXCEPT ![t] = a]
  BY DEF ChoosePlatform
<1>3. /\ orderAt[t] = "idle" /\ UNCHANGED <<keyHeld, orderKey>>
      /\ a \in OrderPhases /\ a \notin Numbered /\ a \notin Holding /\ a \notin Keyed
  BY DEF ChoosePlatform, keyVars, OrderPhases, Numbered, Holding, Keyed
<1>4. orderAt[t] \notin Holding
  BY <1>3 DEF Holding
<1>5. HeldInv'
  BY <1>2, <1>3, <1>4, SmsParts, HeldKept
<1>6. NumberInv'
  <2>1. orderNo[t] \notin Orders
    BY <1>3, NoNumberYet
  <2>2. UNCHANGED <<orderNo, sold, costLedger, cleanupVars>>
    BY DEF ChoosePlatform, bookedVars
  <2> QED BY <1>2, <1>3, <2>1, <2>2, SmsParts, NumberUnused
<1>7. MoneyStep
  BY MoneySame DEF ChoosePlatform, bookedVars, cleanupVars
<1>8. RestInv'
  <2>1. BudgetLeft(t) => attempts[t] + 1 \in 0..NumberBudget
    BY SmsParts, SmsAssumption DEF BudgetLeft, RestInv
  <2>2. attempts' \in [SmsTasks -> 0..NumberBudget]
    BY <2>1, SmsParts DEF ChoosePlatform, RestInv
  <2> QED BY <2>2, SmsParts DEF ChoosePlatform, RestInv, keyVars
<1> QED BY <1>1, <1>5, <1>6, <1>7, <1>8 DEF SmsInv

LEMMA StepReserveKey ==
  ASSUME SmsInv, NEW t \in SmsTasks, NEW k \in SmsKeys, ReserveKey(t, k)
  PROVE  SmsInv' /\ MoneyStep
<1>1. RevisionInv'
  BY SmsParts, RevisionRead DEF ReserveKey
<1>2. PICK a \in {"asking", "querying"} : orderAt' = [orderAt EXCEPT ![t] = a]
  BY DEF ReserveKey
<1>3. orderAt[t] \in {"chosen", "pricing"} /\ a \in OrderPhases /\ a \notin Numbered
  BY DEF ReserveKey, OrderPhases, Numbered
<1>4. HeldInv'
  BY <1>2, <1>3, SmsParts, HeldTaken DEF ReserveKey
<1>5. NumberInv'
  <2>1. orderNo[t] \notin Orders
    BY <1>3, NoNumberYet
  <2>2. UNCHANGED <<orderNo, sold, costLedger, cleanupVars>>
    BY DEF ReserveKey, bookedVars
  <2> QED BY <1>2, <1>3, <2>1, <2>2, SmsParts, NumberUnused
<1>6. MoneyStep
  BY MoneySame DEF ReserveKey, bookedVars, cleanupVars
<1>7. RestInv'
  BY SmsParts DEF ReserveKey, RestInv
<1> QED BY <1>1, <1>4, <1>5, <1>6, <1>7 DEF SmsInv

LEMMA StepNoKeyLeft == ASSUME SmsInv, NEW t \in SmsTasks, NoKeyLeft(t) PROVE SmsInv' /\ MoneyStep
<1>1. RevisionInv'
  BY SmsParts, RevisionSame DEF NoKeyLeft
<1>2. /\ orderAt[t] \in {"chosen", "pricing"} /\ orderAt' = [orderAt EXCEPT ![t] = "idle"]
      /\ UNCHANGED <<keyHeld, orderKey, orderNo, sold, costLedger, cleanupVars>>
  BY DEF NoKeyLeft, bookedVars
<1>3. /\ "idle" \in OrderPhases /\ "idle" \notin Numbered /\ "idle" \notin Holding
      /\ "idle" \notin Keyed /\ orderAt[t] \notin Holding
  BY <1>2 DEF OrderPhases, Numbered, Holding, Keyed
<1>4. HeldInv'
  BY <1>2, <1>3, SmsParts, HeldKept
<1>5. NumberInv'
  BY <1>2, <1>3, SmsParts, NoNumberYet, NumberUnused
<1>6. MoneyStep
  BY MoneySame DEF NoKeyLeft, bookedVars, cleanupVars
<1>7. skipped' \in BOOLEAN
  BY Zenon DEF NoKeyLeft
<1>8. RestInv'
  BY <1>7, SmsParts DEF NoKeyLeft, RestInv
<1> QED BY <1>1, <1>4, <1>5, <1>6, <1>8 DEF SmsInv

LEMMA StepQueryAnswered ==
  ASSUME SmsInv, NEW t \in SmsTasks, QueryAnswered(t) PROVE SmsInv' /\ MoneyStep
<1>1. RevisionInv'
  BY SmsParts, RevisionSame DEF QueryAnswered
<1>2. /\ orderAt[t] = "querying" /\ orderAt' = [orderAt EXCEPT ![t] = "priced"]
      /\ Released(t) /\ UNCHANGED <<orderKey, orderNo, sold, costLedger, cleanupVars>>
  BY DEF QueryAnswered, bookedVars
<1>3. /\ "priced" \in OrderPhases /\ "priced" \notin Numbered /\ "priced" \notin Holding
      /\ orderAt[t] \in Holding
  BY <1>2 DEF OrderPhases, Numbered, Holding
<1>4. orderAt'[t] = "priced" /\ orderAt' = [orderAt EXCEPT ![t] = orderAt'[t]]
  BY <1>2, SmsParts DEF HeldInv
<1>5. /\ orderKey[t] # OldKey => keyHeld' = ReleasedKey(orderKey[t])
      /\ orderKey[t] = OldKey => UNCHANGED keyHeld
      /\ skipped' \in BOOLEAN
  BY <1>2, SmsParts, ReleaseFacts DEF RestInv
<1>6. HeldInv'
  BY <1>2, <1>3, <1>4, <1>5, SmsParts, HeldReturned
<1>7. NumberInv'
  BY <1>2, <1>3, SmsParts, NoNumberYet, NumberUnused
<1>8. MoneyStep
  BY MoneySame DEF QueryAnswered, bookedVars, cleanupVars
<1>9. RestInv'
  BY <1>5, SmsParts DEF QueryAnswered, RestInv
<1> QED BY <1>1, <1>6, <1>7, <1>8, <1>9 DEF SmsInv

LEMMA StepQueryCounted ==
  ASSUME SmsInv, NEW t \in SmsTasks, QueryCounted(t) PROVE SmsInv' /\ MoneyStep
<1>1. RevisionInv'
  BY SmsParts, RevisionSuccess DEF QueryCounted
<1>2. /\ orderAt[t] = "priced" /\ orderAt' = [orderAt EXCEPT ![t] = "idle"]
      /\ orderKey' = [orderKey EXCEPT ![t] = NoKey]
      /\ UNCHANGED <<keyHeld, orderNo, sold, costLedger, cleanupVars>>
  BY DEF QueryCounted, bookedVars
<1>3. /\ "idle" \in OrderPhases /\ "idle" \notin Numbered /\ "idle" \notin Keyed
      /\ orderAt[t] \notin Holding
  BY <1>2 DEF OrderPhases, Numbered, Holding, Keyed
<1>4. HeldInv'
  BY <1>2, <1>3, SmsParts, HeldKept
<1>5. NumberInv'
  BY <1>2, <1>3, SmsParts, NoNumberYet, NumberUnused
<1>6. MoneyStep
  BY MoneySame DEF QueryCounted, bookedVars, cleanupVars
<1>7. RestInv'
  BY SmsParts, RestSame DEF QueryCounted
<1> QED BY <1>1, <1>4, <1>5, <1>6, <1>7 DEF SmsInv

\* A task that asked keeps its key while it holds what it was sold.
LEMMA HeldServed ==
  ASSUME HeldInv, NEW t \in SmsTasks, orderAt[t] = "asking", NEW a \in {"leased", "unusable"},
         orderAt' = [orderAt EXCEPT ![t] = a], UNCHANGED <<keyHeld, orderKey>>
  PROVE  HeldInv'
<1>1. a \in OrderPhases /\ a \in Holding /\ orderAt[t] \in Holding /\ orderAt[t] \in Keyed
  BY DEF OrderPhases, Holding, Keyed
<1> QED BY <1>1, HeldKept

LEMMA StepNumberSold ==
  ASSUME SmsInv, NEW t \in SmsTasks, NEW o \in Orders, NumberSold(t, o)
  PROVE  SmsInv' /\ MoneyStep
<1>1. RevisionInv'
  BY SmsParts, RevisionSuccess DEF NumberSold
<1>2. /\ orderAt[t] = "asking" /\ sold[o] = "unsold"
      /\ orderAt' = [orderAt EXCEPT ![t] = "leased"]
      /\ orderNo' = [orderNo EXCEPT ![t] = o]
      /\ sold' = [sold EXCEPT ![o] = "active"]
      /\ costLedger' = [costLedger EXCEPT ![o] = "leased"]
      /\ UNCHANGED <<keyHeld, orderKey, cleanupVars>>
  BY DEF NumberSold
<1>3. HeldInv'
  BY <1>2, SmsParts, HeldServed
<1>4. costLedger'[o] = "leased" /\ costLedger' = [costLedger EXCEPT ![o] = costLedger'[o]]
  BY <1>2, SmsParts DEF NumberInv
<1>5. NumberInv' /\ MoneyStep
  BY <1>2, <1>4, SmsParts, NumberGot
<1>6. RestInv'
  BY SmsParts DEF NumberSold, RestInv
<1> QED BY <1>1, <1>3, <1>5, <1>6 DEF SmsInv

LEMMA StepActivationUnusable ==
  ASSUME SmsInv, NEW t \in SmsTasks, ActivationUnusable(t) PROVE SmsInv' /\ MoneyStep
<1>1. RevisionInv'
  BY SmsParts, RevisionSuccess DEF ActivationUnusable
<1>2. /\ orderAt[t] = "asking" /\ orderAt' = [orderAt EXCEPT ![t] = "unusable"]
      /\ UNCHANGED <<keyHeld, orderKey, costLedger, cleanupVars>>
  BY DEF ActivationUnusable
<1>3. HeldInv'
  BY <1>2, SmsParts, HeldServed
<1>4. ASSUME UNCHANGED <<sold, orderNo>> PROVE NumberInv' /\ MoneyStep
  <2>1. "unusable" \in OrderPhases /\ "unusable" \notin Numbered
    BY DEF OrderPhases, Numbered
  <2>2. NumberInv'
    BY <1>2, <1>4, <2>1, SmsParts, NoNumberYet, NumberUnused
  <2> QED BY <1>2, <1>4, <2>2, MoneySame DEF cleanupVars
<1>5. ASSUME NEW o \in Orders, sold[o] = "unsold", sold' = [sold EXCEPT ![o] = "active"],
             orderNo' = [orderNo EXCEPT ![t] = o]
      PROVE  NumberInv' /\ MoneyStep
  <2>1. costLedger' = [costLedger EXCEPT ![o] = costLedger'[o]] /\ costLedger'[o] = costLedger[o]
    BY <1>2, SmsParts DEF NumberInv
  <2> QED BY <1>2, <1>5, <2>1, SmsParts, NumberGot
<1>6. NumberInv' /\ MoneyStep
  BY <1>4, <1>5 DEF ActivationUnusable
<1>7. RestInv'
  BY SmsParts DEF ActivationUnusable, RestInv
<1> QED BY <1>1, <1>3, <1>6, <1>7 DEF SmsInv

\* What the platform does with a number it is asked to take back.
LEMMA TakenBack ==
  ASSUME NumberInv, NEW o \in Orders, MayTakeBack(o)
  PROVE  /\ sold' = [sold EXCEPT ![o] = sold'[o]]
         /\ sold'[o] = sold[o] \/ (sold[o] = "active" /\ sold'[o] = "cancelled")
  BY DEF MayTakeBack, NumberInv

LEMMA StepDropUnusable ==
  ASSUME SmsInv, NEW t \in SmsTasks, DropUnusable(t) PROVE SmsInv' /\ MoneyStep
<1>1. RevisionInv'
  BY SmsParts, RevisionSame, RevisionReported DEF DropUnusable
<1>2. /\ orderAt[t] = "unusable" /\ orderAt' = [orderAt EXCEPT ![t] = "idle"]
      /\ orderKey' = [orderKey EXCEPT ![t] = NoKey]
      /\ orderNo' = [orderNo EXCEPT ![t] = NoOrder]
      /\ MayTakeBack(orderNo[t]) /\ Released(t) /\ UNCHANGED <<costLedger, cleanupVars>>
  BY DEF DropUnusable
<1>3. /\ "idle" \in OrderPhases /\ "idle" \notin Numbered /\ "idle" \notin Holding
      /\ "idle" \notin Keyed /\ orderAt[t] \in Holding
  BY <1>2 DEF OrderPhases, Numbered, Holding, Keyed
<1>4. orderAt'[t] = "idle" /\ orderAt' = [orderAt EXCEPT ![t] = orderAt'[t]]
  BY <1>2, SmsParts DEF HeldInv
<1>5. /\ orderKey[t] # OldKey => keyHeld' = ReleasedKey(orderKey[t])
      /\ orderKey[t] = OldKey => UNCHANGED keyHeld
      /\ skipped' \in BOOLEAN
  BY <1>2, SmsParts, ReleaseFacts DEF RestInv
<1>6. HeldInv'
  BY <1>2, <1>3, <1>4, <1>5, SmsParts, HeldReturned
<1>7. ASSUME orderNo[t] \notin Orders PROVE NumberInv' /\ MoneyStep
  <2>1. UNCHANGED sold
    BY <1>2, <1>7 DEF MayTakeBack
  <2>2. UNCHANGED orderNo
    BY <1>2, <1>7, SmsParts DEF NumberInv
  <2>3. NumberInv'
    BY <1>2, <1>3, <1>7, <2>1, <2>2, SmsParts, NumberUnused
  <2> QED BY <1>2, <2>1, <2>2, <2>3, MoneySame DEF cleanupVars
<1>8. ASSUME orderNo[t] \in Orders PROVE NumberInv' /\ MoneyStep
  <2>1. PICK o \in Orders : o = orderNo[t]
    BY <1>8
  <2>2. /\ sold' = [sold EXCEPT ![o] = sold'[o]]
        /\ sold'[o] = sold[o] \/ (sold[o] = "active" /\ sold'[o] = "cancelled")
    BY <1>2, <2>1, SmsParts, TakenBack
  <2>3. /\ costLedger' = [costLedger EXCEPT ![o] = costLedger'[o]]
        /\ costLedger'[o] = costLedger[o] /\ costLedger'[o] \in BookStates
        /\ sold[o] \in {"active", "cancelled", "completed"}
        /\ o \in confirmedRows \cup swept => sold[o] = "cancelled"
        /\ costLedger[o] = "cancelled" => sold[o] = "cancelled"
    BY <1>2, <2>1, SmsParts DEF NumberInv, RefundIsReal, SaleStates
  <2>4. NumberInv'
    BY <1>2, <2>1, <2>2, <2>3, SmsParts, NumberEnds
  <2>5. /\ \A u \in SmsTasks : u # t => orderNo'[u] = orderNo[u]
        /\ \A x \in Orders : x # o => sold'[x] = sold[x] /\ costLedger'[x] = costLedger[x]
    BY <1>2, <2>2, <2>3, SmsParts DEF NumberInv
  <2>6. cancelQueue \subseteq cancelQueue'
    BY <1>2 DEF cleanupVars
  <2>7. MoneyStep
    BY <1>2, <2>1, <2>5, <2>6, SmsParts, MoneyOwn
  <2> QED BY <2>4, <2>7
<1>9. RestInv'
  BY <1>5, SmsParts DEF DropUnusable, RestInv
<1> QED BY <1>1, <1>6, <1>7, <1>8, <1>9 DEF SmsInv

\* The answer of a purchase that fails may be what was lost: then its buyer is told.
LEMMA StepRequestFails ==
  ASSUME SmsInv, NEW t \in SmsTasks, NEW kind \in KeyErrors, RequestFails(t, kind)
  PROVE  SmsInv' /\ MoneyStep
<1>1. RevisionInv'
  BY SmsParts, RevisionReported DEF RequestFails
<1>2. PICK a \in {"idle", "chosen", "pricing"} :
         /\ orderAt' = [orderAt EXCEPT ![t] = a]
         /\ orderAt[t] = "asking" => a \in {"idle", "chosen"}
  BY DEF RequestFails
<1>3. /\ orderAt[t] \in {"asking", "querying"} /\ Released(t)
      /\ orderKey' = [orderKey EXCEPT ![t] = NoKey]
      /\ UNCHANGED <<orderNo, costLedger, cleanupVars>>
      /\ orderAt[t] = "querying" => UNCHANGED sold
      /\ \/ UNCHANGED sold
         \/ \E o \in Orders : sold[o] = "unsold" /\ sold' = [sold EXCEPT ![o] = "active"]
  BY DEF RequestFails
<1>4. /\ a \in OrderPhases /\ a \notin Numbered /\ a \notin Holding /\ a \notin Keyed
      /\ orderAt[t] \in Holding
  BY <1>3 DEF OrderPhases, Numbered, Holding, Keyed
<1>5. orderAt'[t] = a /\ orderAt' = [orderAt EXCEPT ![t] = orderAt'[t]]
  BY <1>2, SmsParts DEF HeldInv
<1>6. /\ orderKey[t] # OldKey => keyHeld' = ReleasedKey(orderKey[t])
      /\ orderKey[t] = OldKey => UNCHANGED keyHeld
      /\ skipped' \in BOOLEAN
  BY <1>3, SmsParts, ReleaseFacts DEF RestInv
<1>7. HeldInv'
  BY <1>2, <1>3, <1>4, <1>5, <1>6, SmsParts, HeldReturned
<1>8. NumberInv'
  BY <1>2, <1>3, <1>4, SmsParts, NoNumberYet, NumberUnused
<1>9. ASSUME NEW o \in Orders PROVE SoldIntoHand(o) /\ StaysInHand(o)
  <2>1. StaysInHand(o)
    BY <1>3 DEF StaysInHand, InHand, cleanupVars
  <2>2. SoldIntoHand(o)
    <3> SUFFICES ASSUME sold[o] = "unsold", sold'[o] # "unsold"
                 PROVE  /\ sold'[o] = "active"
                        /\ orderAt[t] = "asking" /\ orderAt'[t] \in {"chosen", "idle"}
      BY DEF SoldIntoHand
    <3>2. orderAt[t] = "asking" /\ orderAt'[t] \in {"chosen", "idle"}
      BY <1>2, <1>3, SmsParts DEF HeldInv
    <3>3. sold'[o] = "active"
      BY <1>3, SmsParts DEF NumberInv
    <3> QED BY <3>2, <3>3
  <2> QED BY <2>1, <2>2
<1>10. RestInv'
  BY <1>6, SmsParts DEF RequestFails, RestInv
<1> QED BY <1>1, <1>7, <1>8, <1>9, <1>10 DEF SmsInv, MoneyStep

-------------------------------------------------------------------------------
(* Using it.                                                                 *)

LEMMA StepPollFails ==
  ASSUME SmsInv, NEW t \in SmsTasks, NEW kind \in KeyErrors, PollFails(t, kind)
  PROVE  SmsInv' /\ MoneyStep
<1>1. RevisionInv'
  BY SmsParts, RevisionReported DEF PollFails
<1>2. RestInv'
  BY SmsParts, RestSame DEF PollFails, orderVars
<1> QED BY <1>1, <1>2, KeyStep DEF PollFails, orderVars

\* A task that settles its number: complete, or a confirmed cancellation.
LEMMA NumberSettled ==
  ASSUME SmsInv, NEW t \in SmsTasks, orderAt[t] \in {"leased", "spent"},
         sold[orderNo[t]] = "active", NEW how \in {"completed", "cancelled"},
         orderAt[t] = "leased" \/ how = "cancelled",
         orderAt' = [orderAt EXCEPT ![t] = "idle"],
         orderNo' = [orderNo EXCEPT ![t] = NoOrder],
         sold' = [sold EXCEPT ![orderNo[t]] = how],
         costLedger' = [costLedger EXCEPT ![orderNo[t]] = how],
         UNCHANGED cleanupVars
  PROVE  NumberInv' /\ MoneyStep
<1>1. PICK o \in Orders : o = orderNo[t]
  BY SmsParts DEF NumberInv, Numbered
<1>2. /\ sold'[o] = how /\ costLedger'[o] = how
      /\ sold' = [sold EXCEPT ![o] = sold'[o]]
      /\ costLedger' = [costLedger EXCEPT ![o] = costLedger'[o]]
      /\ how \in BookStates
  BY <1>1, SmsParts DEF NumberInv, BookStates
<1>3. o \notin confirmedRows \cup swept
  BY <1>1, SmsParts DEF NumberInv, RefundIsReal
<1>4. NumberInv'
  <2>1. /\ sold'[o] \in {"active", "cancelled", "completed"} /\ costLedger'[o] \in BookStates
        /\ sold[o] = "cancelled" => sold'[o] = "cancelled"
        /\ o \in confirmedRows \cup swept => sold'[o] = "cancelled"
        /\ costLedger'[o] = "cancelled" => sold'[o] = "cancelled"
    BY <1>1, <1>2, <1>3
  <2> QED BY <1>1, <1>2, <2>1, SmsParts, NumberEnds
<1>5. /\ \A u \in SmsTasks : u # t => orderNo'[u] = orderNo[u]
      /\ \A x \in Orders : x # o => sold'[x] = sold[x] /\ costLedger'[x] = costLedger[x]
      /\ sold'[o] # "active"
  BY <1>1, <1>2, SmsParts DEF NumberInv
<1>6. cancelQueue \subseteq cancelQueue'
  BY DEF cleanupVars
<1>7. MoneyStep
  BY <1>1, <1>5, <1>6, SmsParts, MoneyOwn
<1> QED BY <1>4, <1>7

LEMMA StepCompleteOrder ==
  ASSUME SmsInv, NEW t \in SmsTasks, CompleteOrder(t) PROVE SmsInv' /\ MoneyStep
<1>1. RevisionInv'
  BY SmsParts, RevisionSame DEF CompleteOrder
<1>2. skipped \in BOOLEAN
  BY SmsParts DEF RestInv
<1>3. HeldInv'
  BY <1>2, SmsParts, HeldFinished DEF CompleteOrder
<1>4. sold[orderNo[t]] = "active"
  BY SmsParts DEF CompleteOrder, NumberInv
<1>5. NumberInv' /\ MoneyStep
  BY <1>4, NumberSettled DEF CompleteOrder
<1>6. skipped' \in BOOLEAN
  BY <1>2, FinishFacts DEF CompleteOrder
<1>7. RestInv'
  BY <1>6, SmsParts DEF CompleteOrder, RestInv
<1> QED BY <1>1, <1>3, <1>5, <1>7 DEF SmsInv

LEMMA StepCancelConfirmed ==
  ASSUME SmsInv, NEW t \in SmsTasks, CancelConfirmed(t) PROVE SmsInv' /\ MoneyStep
<1>1. RevisionInv'
  BY SmsParts, RevisionSame DEF CancelConfirmed
<1>2. skipped \in BOOLEAN /\ orderAt[t] \in {"leased", "spent"}
  BY SmsParts DEF RestInv, CancelConfirmed, HasNumber
<1>3. HeldInv'
  BY <1>2, SmsParts, HeldFinished DEF CancelConfirmed
<1>4. NumberInv' /\ MoneyStep
  BY <1>2, NumberSettled DEF CancelConfirmed
<1>5. skipped' \in BOOLEAN
  BY <1>2, FinishFacts DEF CancelConfirmed
<1>6. RestInv'
  BY <1>5, SmsParts DEF CancelConfirmed, RestInv
<1> QED BY <1>1, <1>3, <1>4, <1>6 DEF SmsInv

LEMMA StepCompleteFails ==
  ASSUME SmsInv, NEW t \in SmsTasks, NEW kind \in KeyErrors, CompleteFails(t, kind)
  PROVE  SmsInv' /\ MoneyStep
<1>1. RevisionInv'
  BY SmsParts, RevisionReported DEF CompleteFails
<1>2. /\ orderAt[t] = "leased" /\ FinishReleases(t)
      /\ orderAt' = [orderAt EXCEPT ![t] = "spent"]
      /\ UNCHANGED <<orderKey, orderNo, cleanupVars>>
  BY DEF CompleteFails
<1>3. orderAt'[t] = "spent" /\ orderAt' = [orderAt EXCEPT ![t] = orderAt'[t]]
  BY <1>2, SmsParts DEF HeldInv
<1>4. /\ orderKey[t] # OldKey => keyHeld' = ReleasedKey(orderKey[t])
      /\ orderKey[t] = OldKey => UNCHANGED keyHeld
      /\ skipped' \in BOOLEAN
  BY <1>2, SmsParts, FinishFacts DEF RestInv
<1>5. HeldInv'
  <2>1. "spent" \in OrderPhases /\ "spent" \notin Holding /\ "leased" \in Holding
    BY DEF OrderPhases, Holding
  <2> QED BY <1>2, <1>3, <1>4, <2>1, SmsParts, HeldReturned
<1>6. PICK o \in Orders : o = orderNo[t]
  BY <1>2, SmsParts DEF NumberInv, Numbered
<1>7. /\ costLedger' = [costLedger EXCEPT ![o] = costLedger'[o]]
      /\ costLedger'[o] = "complete_error"
      /\ sold' = [sold EXCEPT ![o] = sold'[o]]
      /\ sold'[o] = sold[o] \/ sold'[o] = "completed"
  BY <1>6, SmsParts DEF CompleteFails, NumberInv
<1>8. NumberInv' /\ MoneyStep
  BY <1>2, <1>3, <1>6, <1>7, SmsParts, NumberKept DEF cleanupVars
<1>9. RestInv'
  BY <1>4, SmsParts DEF CompleteFails, RestInv
<1> QED BY <1>1, <1>5, <1>8, <1>9 DEF SmsInv

\* The number is handed to the queue, or nobody could write that.
LEMMA StepHandsOver ==
  ASSUME SmsInv, NEW t \in SmsTasks, HandsOver(t), RevisionInv',
         attempts' \in [SmsTasks -> 0..NumberBudget]
  PROVE  SmsInv' /\ MoneyStep
<1>1. PICK a \in {"queued", "unqueued"} :
         /\ orderAt' = [orderAt EXCEPT ![t] = a]
         /\ a = "queued" => cancelQueue' = QueuedCancel(orderNo[t])
         /\ a = "unqueued" => UNCHANGED cancelQueue
  BY DEF HandsOver
<1>2. /\ orderAt[t] \in {"leased", "spent"} /\ MayTakeBack(orderNo[t]) /\ FinishReleases(t)
      /\ costLedger' = [costLedger EXCEPT ![orderNo[t]] = "cancel_pending"]
      /\ orderKey' = [orderKey EXCEPT ![t] = NoKey]
      /\ UNCHANGED <<orderNo, confirmedRows, sweep, swept>>
  BY DEF HandsOver, HasNumber
<1>3. skipped \in BOOLEAN
  BY SmsParts DEF RestInv
<1>4. HeldInv'
  BY <1>1, <1>2, <1>3, SmsParts, HeldFinished
<1>5. PICK o \in Orders : o = orderNo[t]
  BY <1>2, SmsParts DEF NumberInv, Numbered
<1>6. /\ sold' = [sold EXCEPT ![o] = sold'[o]]
      /\ sold'[o] = sold[o] \/ sold'[o] = "cancelled"
  BY <1>2, <1>5, SmsParts, TakenBack
<1>7. /\ costLedger' = [costLedger EXCEPT ![o] = costLedger'[o]]
      /\ costLedger'[o] = "cancel_pending"
  BY <1>2, <1>5, SmsParts DEF NumberInv
<1>8. /\ orderAt'[t] = a /\ orderAt' = [orderAt EXCEPT ![t] = orderAt'[t]]
      /\ cancelQueue' = cancelQueue \/ cancelQueue' = cancelQueue \cup {o}
      /\ a = "queued" => o \in cancelQueue' \/ sold'[o] # "active"
  <2>1. o \in confirmedRows => sold[o] = "cancelled"
    BY SmsParts DEF NumberInv, RefundIsReal
  <2>2. orderAt'[t] = a
    BY <1>1, SmsParts DEF HeldInv
  <2> QED BY <1>1, <1>5, <1>6, <2>1, <2>2 DEF QueuedCancel
<1>9. NumberInv' /\ MoneyStep
  <2>1. /\ orderAt'[t] \in {"spent", "queued", "unqueued"} /\ orderAt'[t] # "spent"
        /\ costLedger'[o] \in {"complete_error", "cancel_pending"}
    BY <1>1, <1>7, <1>8
  <2> QED BY <1>2, <1>5, <1>6, <1>7, <1>8, <2>1, SmsParts, NumberKept
<1>10. skipped' \in BOOLEAN
  BY <1>2, <1>3, FinishFacts
<1>11. RestInv'
  BY <1>10, SmsParts DEF HandsOver, RestInv
<1> QED BY <1>4, <1>9, <1>11 DEF SmsInv

LEMMA StepCancelFails ==
  ASSUME SmsInv, NEW t \in SmsTasks, NEW kind \in KeyErrors, CancelFails(t, kind)
  PROVE  SmsInv' /\ MoneyStep
<1>1. RevisionInv'
  BY SmsParts, RevisionReported DEF CancelFails
<1>2. NumberBudget \in 0..NumberBudget
  BY SmsAssumption
<1>3. attempts' \in [SmsTasks -> 0..NumberBudget]
  BY <1>2, SmsParts DEF CancelFails, RestInv
<1> QED BY <1>1, <1>3, StepHandsOver DEF CancelFails

LEMMA StepCancelUnconfirmed ==
  ASSUME SmsInv, NEW t \in SmsTasks, CancelUnconfirmed(t) PROVE SmsInv' /\ MoneyStep
<1>1. RevisionInv'
  BY SmsParts, RevisionSame DEF CancelUnconfirmed
<1>2. attempts' \in [SmsTasks -> 0..NumberBudget]
  BY SmsParts DEF CancelUnconfirmed, RestInv
<1> QED BY <1>1, <1>2, StepHandsOver DEF CancelUnconfirmed

LEMMA StepNoteCancel ==
  ASSUME SmsInv, NEW t \in SmsTasks, NoteCancel(t) PROVE SmsInv' /\ MoneyStep
<1>1. RevisionInv'
  BY SmsParts, RevisionSame DEF NoteCancel, keyVars
<1>2. /\ orderAt[t] \in {"queued", "unqueued"} /\ orderAt' = [orderAt EXCEPT ![t] = "idle"]
      /\ orderNo' = [orderNo EXCEPT ![t] = NoOrder]
      /\ UNCHANGED <<keyHeld, orderKey, sold, cleanupVars>>
  BY DEF NoteCancel, keyVars
<1>3. HeldInv'
  <2>1. "idle" \in OrderPhases /\ "idle" \notin Holding /\ "idle" \notin Keyed
    BY DEF OrderPhases, Holding, Keyed
  <2>2. orderAt[t] \notin Holding
    BY <1>2 DEF Holding
  <2> QED BY <1>2, <2>1, <2>2, SmsParts, HeldKept
<1>4. PICK o \in Orders : o = orderNo[t]
  BY <1>2, SmsParts DEF NumberInv, Numbered
<1>5. /\ costLedger' = [costLedger EXCEPT ![o] = costLedger'[o]]
      /\ costLedger'[o] = IF orderAt[t] = "queued" THEN "cancel_pending" ELSE "cancel_failed"
      /\ sold' = [sold EXCEPT ![o] = sold'[o]] /\ sold'[o] = sold[o]
      /\ sold[o] \in {"active", "cancelled", "completed"}
      /\ o \in confirmedRows \cup swept => sold[o] = "cancelled"
  BY <1>2, <1>4, SmsParts DEF NoteCancel, NumberInv, RefundIsReal, SaleStates
<1>6. /\ costLedger'[o] \in BookStates /\ costLedger'[o] # "cancelled"
      /\ sold'[o] # "active" \/ o \in cancelQueue \/ costLedger'[o] = "cancel_failed"
  BY <1>2, <1>4, <1>5, SmsParts DEF NumberInv, BookStates
<1>7. NumberInv'
  BY <1>2, <1>4, <1>5, <1>6, SmsParts, NumberEnds
<1>8. /\ \A u \in SmsTasks : u # t => orderNo'[u] = orderNo[u]
      /\ \A x \in Orders : x # o => sold'[x] = sold[x] /\ costLedger'[x] = costLedger[x]
  BY <1>2, <1>5, SmsParts DEF NumberInv
<1>9. MoneyStep
  BY <1>2, <1>4, <1>6, <1>8, SmsParts, MoneyOwn DEF cleanupVars
<1>10. RestInv'
  BY SmsParts, RestSame DEF NoteCancel, keyVars
<1> QED BY <1>1, <1>3, <1>7, <1>9, <1>10 DEF SmsInv

-------------------------------------------------------------------------------
(* The cleanup worker, a new run, a crash.                                   *)

LEMMA StepStartSweep == ASSUME SmsInv, StartSweep PROVE SmsInv' /\ MoneyStep
<1>1. RevisionInv' /\ HeldInv' /\ RestInv'
  BY SmsParts, RevisionSame, HeldSame, RestSame DEF StartSweep, keyVars, orderVars
<1>2. NumberInv'
  <2>1. sweep' \subseteq cancelQueue
    BY DEF StartSweep
  <2> QED BY <2>1, SmsParts DEF StartSweep, NumberInv, RefundIsReal, orderVars, bookedVars
<1>3. MoneyStep
  BY MoneySame DEF StartSweep, orderVars, bookedVars
<1> QED BY <1>1, <1>2, <1>3 DEF SmsInv

LEMMA StepEndSweep == ASSUME SmsInv, EndSweep PROVE SmsInv' /\ MoneyStep
<1>1. RevisionInv' /\ HeldInv' /\ RestInv'
  BY SmsParts, RevisionSame, HeldSame, RestSame DEF EndSweep, keyVars, orderVars
<1>2. \A o \in swept : sold[o] = "cancelled"
  BY SmsParts DEF NumberInv, RefundIsReal
<1>3. /\ cancelQueue' = cancelQueue \ swept /\ swept' = {} /\ sweep' = {}
      /\ confirmedRows' = confirmedRows \cup (swept \cap cancelQueue)
      /\ UNCHANGED <<orderAt, orderNo, sold, costLedger>>
  BY DEF EndSweep, orderVars, bookedVars
<1>4. RefundIsReal'
  BY <1>2, <1>3, SmsParts DEF NumberInv, RefundIsReal
<1>5. NumberInv'
  BY <1>2, <1>3, <1>4, SmsParts DEF NumberInv
<1>6. MoneyStep
  BY <1>2, <1>3 DEF MoneyStep, SoldIntoHand, StaysInHand, InHand
<1> QED BY <1>1, <1>5, <1>6 DEF SmsInv

LEMMA StepTryRow ==
  ASSUME SmsInv, NEW o \in Orders, NEW confirmed \in BOOLEAN, TryRow(o, confirmed)
  PROVE  SmsInv' /\ MoneyStep
<1>1. RevisionInv' /\ HeldInv' /\ RestInv'
  BY SmsParts, RevisionSame, HeldSame, RestSame DEF TryRow, keyVars, orderVars
<1>2. /\ o \in sweep /\ sweep' = sweep \ {o}
      /\ swept' = swept \/ (confirmed /\ swept' = swept \cup {o})
      /\ \/ sold[o] \in {"active", "cancelled"} /\ sold' = [sold EXCEPT ![o] = "cancelled"]
         \/ ~confirmed /\ UNCHANGED sold
      /\ costLedger' = costLedger \/ (confirmed /\ costLedger' = [costLedger EXCEPT ![o] = "cancelled"])
      /\ UNCHANGED <<orderAt, orderNo, cancelQueue, confirmedRows>>
  BY DEF TryRow, DoneRows, orderVars
<1>3. o \in cancelQueue
  BY <1>2, SmsParts DEF NumberInv
<1>4. \A u \in SmsTasks : orderAt[u] = "leased" => orderNo[u] # o
  BY <1>3, SmsParts DEF NumberInv
<1>5. /\ sold' \in [Orders -> SaleStates]
      /\ \A x \in Orders : \/ sold'[x] = sold[x]
                           \/ x = o /\ sold[x] # "unsold" /\ sold'[x] = "cancelled"
      /\ confirmed => sold'[o] = "cancelled"
  BY <1>2, SmsParts DEF NumberInv, SaleStates
<1>6. /\ costLedger' \in [Orders -> BookStates]
      /\ \A x \in Orders : costLedger'[x] = costLedger[x]
                             \/ (x = o /\ confirmed /\ costLedger'[x] = "cancelled")
  BY <1>2, SmsParts DEF NumberInv, BookStates
<1>7. RefundIsReal'
  BY <1>2, <1>5, <1>6, SmsParts DEF NumberInv, RefundIsReal
<1>8. sweep' \subseteq cancelQueue /\ swept' \subseteq cancelQueue
  BY <1>2, <1>3, SmsParts DEF NumberInv
<1>9. /\ \A u \in SmsTasks : orderNo[u] \in Orders => sold'[orderNo[u]] # "unsold"
      /\ \A x \in cancelQueue : sold'[x] # "unsold"
  BY <1>5, SmsParts DEF NumberInv
<1>10. \A u \in SmsTasks : orderAt[u] = "leased" => sold'[orderNo[u]] = "active"
  BY <1>4, <1>5, SmsParts DEF NumberInv, Numbered
<1>11. /\ \A u \in SmsTasks : orderAt[u] = "queued" =>
            orderNo[u] \in cancelQueue \/ sold'[orderNo[u]] # "active"
       /\ \A u \in SmsTasks : orderAt[u] = "spent" =>
            sold'[orderNo[u]] # "active" \/ costLedger'[orderNo[u]] = "complete_error"
  BY <1>5, <1>6, SmsParts DEF NumberInv, Numbered
<1>12. NumberInv'
  BY <1>2, <1>5, <1>6, <1>7, <1>8, <1>9, <1>10, <1>11, SmsParts DEF NumberInv
<1>13. MoneyStep
  BY <1>2, <1>5, <1>6 DEF MoneyStep, SoldIntoHand, StaysInHand, InHand
<1> QED BY <1>1, <1>12, <1>13 DEF SmsInv

\* Whatever the tasks of the last run still had is in the books.
LEMMA StepBeginSmsRun == ASSUME SmsInv, BeginSmsRun PROVE SmsInv' /\ MoneyStep
<1>1. RevisionInv'
  BY SmsParts, RevisionSame DEF BeginSmsRun
<1>2. /\ orderAt' = [t \in SmsTasks |-> "idle"] /\ orderKey' = [t \in SmsTasks |-> NoKey]
      /\ orderNo' = [t \in SmsTasks |-> NoOrder] /\ keyHeld' = [k \in SmsKeys |-> 0]
      /\ UNCHANGED <<sold, costLedger, cleanupVars>>
      /\ \A t \in SmsTasks : orderAt[t] \in {"idle", "spent"}
  BY DEF BeginSmsRun, bookedVars
<1>3. HeldInv'
  <2>1. \A t \in SmsTasks : orderAt'[t] \notin Holding /\ orderAt'[t] \notin Keyed
    BY <1>2 DEF Holding, Keyed
  <2>2. HeldExact'
    BY <1>2, <2>1, NobodyHoldsNext DEF HeldExact
  <2> QED BY <1>2, <2>1, <2>2 DEF HeldInv, OrderPhases
<1>4. NumberInv'
  BY <1>2, SmsParts, SmsAssumption DEF NumberInv, RefundIsReal, Numbered, cleanupVars
<1>5. MoneyStep
  <2>1. ASSUME NEW o \in Orders PROVE SoldIntoHand(o) /\ StaysInHand(o)
    <3>1. \A t \in SmsTasks : orderNo[t] = o => orderAt[t] = "spent"
      BY <1>2, NoNumberYet
    <3>2. sold[o] = "active" /\ InHand(o) => InHand(o)'
      BY <1>2, <3>1, SmsParts DEF InHand, NumberInv, cleanupVars
    <3> QED BY <1>2, <3>2 DEF SoldIntoHand, StaysInHand
  <2> QED BY <2>1 DEF MoneyStep
<1>6. RestInv'
  <2>1. 0 \in 0..NumberBudget
    BY SmsAssumption
  <2> QED BY <2>1, SmsParts DEF BeginSmsRun, RestInv
<1> QED BY <1>1, <1>3, <1>4, <1>5, <1>6 DEF SmsInv

LEMMA StepSmsCrash == ASSUME SmsInv, SmsCrash PROVE SmsInv' /\ MoneyStep
<1>1. RevisionInv'
  BY DEF SmsCrash, RevisionInv, KeyStates
<1>2. /\ orderAt' = [t \in SmsTasks |-> "idle"] /\ orderKey' = [t \in SmsTasks |-> NoKey]
      /\ orderNo' = [t \in SmsTasks |-> NoOrder] /\ keyHeld' = [k \in SmsKeys |-> 0]
      /\ sweep' = {} /\ swept' = {} /\ smsCrashes' = smsCrashes + 1
      /\ UNCHANGED <<sold, cancelQueue, confirmedRows>>
  BY DEF SmsCrash
<1>3. HeldInv'
  <2>1. \A t \in SmsTasks : orderAt'[t] \notin Holding /\ orderAt'[t] \notin Keyed
    BY <1>2 DEF Holding, Keyed
  <2>2. HeldExact'
    BY <1>2, <2>1, NobodyHoldsNext DEF HeldExact
  <2> QED BY <1>2, <2>1, <2>2 DEF HeldInv, OrderPhases
<1>4. /\ costLedger' \in [Orders -> BookStates]
      /\ \A o \in Orders : costLedger'[o] \in {costLedger[o], "none"}
  BY SmsParts DEF SmsCrash, NumberInv, BookStates
<1>5. NumberInv'
  BY <1>2, <1>4, SmsParts, SmsAssumption DEF NumberInv, RefundIsReal, Numbered
<1>6. MoneyStep
  <2>1. smsCrashes' # smsCrashes
    BY <1>2, SmsParts, SmsAssumption DEF RestInv
  <2> QED BY <1>2, <2>1 DEF MoneyStep, SoldIntoHand, StaysInHand, InHand, GoesAstray
<1>7. RestInv'
  <2>1. 0 \in 0..NumberBudget /\ smsCrashes + 1 \in 0..MaxSmsCrashes
    BY SmsParts, SmsAssumption DEF SmsCrash, RestInv
  <2>2. /\ probeLeft' \in [Probes -> SUBSET SmsKeys] /\ tried' \in [SmsTasks -> SUBSET SmsKeys]
        /\ probing' = NoProbe /\ skipped' = FALSE
    BY DEF SmsCrash
  <2>3. attempts' \in [SmsTasks -> 0..NumberBudget] /\ smsCrashes' \in 0..MaxSmsCrashes
    BY <2>1 DEF SmsCrash
  <2> QED BY <2>2, <2>3 DEF RestInv
<1> QED BY <1>1, <1>3, <1>5, <1>6, <1>7 DEF SmsInv

LEMMA SmsStart == SmsInit => SmsInv
<1> SUFFICES ASSUME SmsInit PROVE SmsInv
  OBVIOUS
<1>1. RevisionInv
  BY DEF SmsInit, RevisionInv, KeyStates
<1>2. HeldInv
  <2>1. \A t \in SmsTasks : orderAt[t] \notin Holding /\ orderAt[t] \notin Keyed
    BY DEF SmsInit, Holding, Keyed
  <2>2. HeldExact
    BY <2>1, NobodyHolds DEF SmsInit, HeldExact
  <2> QED BY <2>1, <2>2 DEF SmsInit, HeldInv, OrderPhases
<1>3. NumberInv
  BY SmsAssumption DEF SmsInit, NumberInv, RefundIsReal, Numbered, SaleStates, BookStates
<1>4. RestInv
  <2>1. 0 \in 0..NumberBudget /\ 0 \in 0..MaxSmsCrashes
    BY SmsAssumption
  <2>2. /\ probeLeft \in [Probes -> SUBSET SmsKeys] /\ tried \in [SmsTasks -> SUBSET SmsKeys]
        /\ probing = NoProbe /\ skipped = FALSE
    BY DEF SmsInit
  <2>3. attempts \in [SmsTasks -> 0..NumberBudget] /\ smsCrashes \in 0..MaxSmsCrashes
    BY <2>1 DEF SmsInit
  <2> QED BY <2>2, <2>3 DEF RestInv
<1> QED BY <1>1, <1>2, <1>3, <1>4 DEF SmsInv

\* Every action, with what it keeps and what it may do with a number.
LEMMA MoneyEach == SmsInv /\ SmsNext => SmsInv' /\ MoneyStep
<1> SUFFICES ASSUME SmsInv, SmsNext PROVE SmsInv' /\ MoneyStep
  OBVIOUS
<1>1. ASSUME NEW k \in SmsKeys, CooldownOver(k) PROVE SmsInv' /\ MoneyStep
  BY <1>1, StepCooldownOver
<1>2. CASE ConfigureKeys \/ BeginSmsRun \/ FindExhausted
  BY <1>2, StepConfigureKeys, StepBeginSmsRun, StepFindExhausted
<1>3. ASSUME NEW kept \in SUBSET SmsKeys, ReplaceKeys(kept) PROVE SmsInv' /\ MoneyStep
  BY <1>3, StepReplaceKeys
<1>4. ASSUME NEW p \in Probes, StartProbe(p) PROVE SmsInv' /\ MoneyStep
  BY <1>4, StepStartProbe
<1>5. ASSUME NEW p \in Probes, NEW k \in SmsKeys, NEW status \in ProbeAnswers,
             WriteProbe(p, k, status)
      PROVE  SmsInv' /\ MoneyStep
  BY <1>5, StepWriteProbe
<1>6. ASSUME NEW t \in SmsTasks,
             ChoosePlatform(t) \/ NoKeyLeft(t) \/ QueryAnswered(t) \/ QueryCounted(t)
      PROVE  SmsInv' /\ MoneyStep
  BY <1>6, StepChoosePlatform, StepNoKeyLeft, StepQueryAnswered, StepQueryCounted
<1>7. ASSUME NEW t \in SmsTasks, NEW k \in SmsKeys, ReserveKey(t, k)
      PROVE  SmsInv' /\ MoneyStep
  BY <1>7, StepReserveKey
<1>8. ASSUME NEW t \in SmsTasks, NEW o \in Orders, NumberSold(t, o)
      PROVE  SmsInv' /\ MoneyStep
  BY <1>8, StepNumberSold
<1>9. ASSUME NEW t \in SmsTasks, ActivationUnusable(t) \/ DropUnusable(t)
      PROVE  SmsInv' /\ MoneyStep
  BY <1>9, StepActivationUnusable, StepDropUnusable
<1>10. ASSUME NEW t \in SmsTasks, NEW kind \in KeyErrors,
              RequestFails(t, kind) \/ PollFails(t, kind)
       PROVE  SmsInv' /\ MoneyStep
  BY <1>10, StepRequestFails, StepPollFails
<1>11. ASSUME NEW t \in SmsTasks, NEW kind \in KeyErrors,
              CompleteFails(t, kind) \/ CancelFails(t, kind)
       PROVE  SmsInv' /\ MoneyStep
  BY <1>11, StepCompleteFails, StepCancelFails
<1>12. ASSUME NEW t \in SmsTasks,
              \/ CompleteOrder(t) \/ CancelConfirmed(t)
              \/ CancelUnconfirmed(t) \/ NoteCancel(t)
       PROVE  SmsInv' /\ MoneyStep
  BY <1>12, StepCompleteOrder, StepCancelConfirmed, StepCancelUnconfirmed, StepNoteCancel
<1>13. CASE StartSweep \/ EndSweep \/ SmsCrash
  BY <1>13, StepStartSweep, StepEndSweep, StepSmsCrash
<1>14. ASSUME NEW o \in Orders, NEW confirmed \in BOOLEAN, TryRow(o, confirmed)
       PROVE  SmsInv' /\ MoneyStep
  BY <1>14, StepTryRow
<1> QED BY <1>1, <1>2, <1>3, <1>4, <1>5, <1>6, <1>7, <1>8, <1>9, <1>10, <1>11, <1>12, <1>13,
           <1>14 DEF SmsNext

LEMMA SmsStep == SmsInv /\ [SmsNext]_smsVars => SmsInv'
<1> SUFFICES ASSUME SmsInv, UNCHANGED smsVars PROVE SmsInv'
  BY MoneyEach
<1> QED BY SmsParts, RevisionSame, HeldSame, NumberSame, RestSame
        DEF smsVars, keyVars, orderVars, SmsInv

-------------------------------------------------------------------------------
(* Answers in order.                                                         *)

\* What AnswersInOrder says of one step.
AnswerStep ==
  \A k \in SmsKeys : /\ \A t \in SmsTasks : StaleSuccessDropped(t, k)
                     /\ \A p \in Probes : StaleProbeDropped(p, k)

\* A step in which no probe writes and no call's success is looked at.
LEMMA OtherStep ==
  ASSUME SmsInv, UNCHANGED probeLeft,
         \/ UNCHANGED orderAt
         \/ \E t \in SmsTasks, a \in OrderPhases :
               /\ orderAt' = [orderAt EXCEPT ![t] = a]
               /\ a \notin {"leased", "unusable"} /\ orderAt[t] # "priced"
  PROVE  AnswerStep
<1>1. \A t \in SmsTasks : ~(orderAt[t] = "asking" /\ orderAt'[t] \in {"leased", "unusable"})
  BY DEF SmsInv, HeldInv
<1>2. \A t \in SmsTasks : ~(orderAt[t] = "priced" /\ orderAt'[t] = "idle")
  BY DEF SmsInv, HeldInv
<1>3. \A p \in Probes, k \in SmsKeys : k \notin probeLeft[p] \ probeLeft'[p]
  OBVIOUS
<1> QED BY <1>1, <1>2, <1>3 DEF AnswerStep, StaleSuccessDropped, SuccessOf, StaleProbeDropped

\* A step in which the success of one call is looked at.
LEMMA SuccessStep ==
  ASSUME SmsInv, UNCHANGED probeLeft, NEW t \in SmsTasks,
         orderAt' = [orderAt EXCEPT ![t] = orderAt'[t]], SuccessCounts(t)
  PROVE  AnswerStep
<1>1. \A p \in Probes, k \in SmsKeys : k \notin probeLeft[p] \ probeLeft'[p]
  OBVIOUS
<1>2. ASSUME NEW k \in SmsKeys, NEW u \in SmsTasks, SuccessOf(u),
             orderKey[u] = OldKey \/ (orderKey[u] = k /\ u \in overtaken[k])
      PROVE  keyHealth'[k] = keyHealth[k]
  <2>1. u = t
    BY <1>2 DEF SuccessOf, SmsInv, HeldInv
  <2>2. ~StillMatching(t, orderKey[t])
    BY <1>2, <2>1, SmsParts, SmsAssumption DEF RevisionInv, StillMatching
  <2> QED BY <2>2 DEF SuccessCounts
<1> QED BY <1>1, <1>2 DEF AnswerStep, StaleSuccessDropped, StaleProbeDropped

LEMMA ProbeStep ==
  ASSUME SmsInv, NEW p \in Probes, NEW k \in SmsKeys, NEW status, WriteProbe(p, k, status)
  PROVE  AnswerStep
<1>1. \A t \in SmsTasks : ~SuccessOf(t)
  BY DEF WriteProbe, orderVars, SuccessOf
<1>2. ASSUME NEW j \in SmsKeys, NEW q \in Probes, j \in probeLeft[q] \ probeLeft'[q],
             probing # q \/ q \in overtaken[j]
      PROVE  keyHealth'[j] = keyHealth[j]
  <2>1. q = p /\ j = k
    BY <1>2, SmsParts DEF WriteProbe, RestInv
  <2>2. ~Writes(p, k)
    BY <1>2, <2>1, SmsParts DEF Writes, RevisionInv
  <2> QED BY <2>1, <2>2 DEF WriteProbe
<1> QED BY <1>1, <1>2 DEF AnswerStep, StaleSuccessDropped, StaleProbeDropped

\* A step of one task whose call fails or moves on.
LEMMA TaskStep ==
  ASSUME SmsInv, NEW t \in SmsTasks, NEW kind \in KeyErrors,
         \/ ChoosePlatform(t) \/ NoKeyLeft(t) \/ QueryAnswered(t) \/ DropUnusable(t)
         \/ RequestFails(t, kind) \/ CompleteOrder(t) \/ CompleteFails(t, kind)
         \/ CancelConfirmed(t) \/ NoteCancel(t) \/ HandsOver(t)
  PROVE  AnswerStep
<1>1. {"chosen", "pricing", "idle", "priced", "spent", "queued", "unqueued"} \subseteq OrderPhases
  BY DEF OrderPhases
<1>2. CASE ChoosePlatform(t) \/ NoKeyLeft(t) \/ QueryAnswered(t) \/ DropUnusable(t)
  BY <1>1, <1>2, OtherStep DEF ChoosePlatform, NoKeyLeft, QueryAnswered, DropUnusable, keyVars
<1>3. CASE RequestFails(t, kind)
  BY <1>1, <1>3, OtherStep DEF RequestFails
<1>4. CASE CompleteOrder(t) \/ CompleteFails(t, kind)
  BY <1>1, <1>4, OtherStep DEF CompleteOrder, CompleteFails
<1>5. CASE CancelConfirmed(t) \/ NoteCancel(t) \/ HandsOver(t)
  BY <1>1, <1>5, OtherStep DEF CancelConfirmed, NoteCancel, HandsOver, HasNumber, keyVars
<1> QED BY <1>2, <1>3, <1>4, <1>5

LEMMA AnswersStep == SmsInv /\ SmsNext => AnswerStep
<1> SUFFICES ASSUME SmsInv, SmsNext PROVE AnswerStep
  OBVIOUS
<1>1. ASSUME NEW p \in Probes, StartProbe(p) PROVE AnswerStep
  <2>1. \A q \in Probes, k \in SmsKeys : k \notin probeLeft[q] \ probeLeft'[q]
    BY <1>1, SmsParts DEF StartProbe, RestInv
  <2>2. UNCHANGED orderAt
    BY <1>1 DEF StartProbe, orderVars
  <2> QED BY <2>1, <2>2 DEF AnswerStep, StaleSuccessDropped, SuccessOf, StaleProbeDropped
<1>2. ASSUME NEW p \in Probes, NEW k \in SmsKeys, NEW status \in ProbeAnswers,
             WriteProbe(p, k, status)
      PROVE  AnswerStep
  BY <1>2, ProbeStep
<1>3. CASE SmsCrash
  <2>1. \A t \in SmsTasks : orderAt'[t] \notin {"leased", "unusable"}
    BY <1>3 DEF SmsCrash
  <2>2. smsCrashes' # smsCrashes
    BY <1>3, SmsParts, SmsAssumption DEF SmsCrash, RestInv
  <2> QED BY <2>1, <2>2 DEF AnswerStep, StaleSuccessDropped, SuccessOf, StaleProbeDropped
<1>4. CASE BeginSmsRun
  <2>1. \A t \in SmsTasks : orderAt[t] \notin {"asking", "priced"}
    BY <1>4 DEF BeginSmsRun
  <2>2. \A q \in Probes, k \in SmsKeys : k \notin probeLeft[q] \ probeLeft'[q]
    BY <1>4 DEF BeginSmsRun
  <2> QED BY <2>1, <2>2 DEF AnswerStep, StaleSuccessDropped, SuccessOf, StaleProbeDropped
<1>5. CASE ConfigureKeys \/ FindExhausted \/ StartSweep \/ EndSweep
  BY <1>5, OtherStep DEF ConfigureKeys, FindExhausted, StartSweep, EndSweep, keyVars, orderVars
<1>6. ASSUME NEW kept \in SUBSET SmsKeys, ReplaceKeys(kept) PROVE AnswerStep
  BY <1>6, OtherStep DEF ReplaceKeys
<1>7. ASSUME NEW k \in SmsKeys, CooldownOver(k) PROVE AnswerStep
  BY <1>7, OtherStep DEF CooldownOver, orderVars
<1>8. ASSUME NEW o \in Orders, NEW confirmed \in BOOLEAN, TryRow(o, confirmed) PROVE AnswerStep
  BY <1>8, OtherStep DEF TryRow, keyVars, orderVars
<1>9. ASSUME NEW t \in SmsTasks, NEW o \in Orders, NumberSold(t, o) PROVE AnswerStep
  <2>1. orderAt' = [orderAt EXCEPT ![t] = orderAt'[t]]
    BY <1>9, SmsParts DEF NumberSold, HeldInv
  <2> QED BY <1>9, <2>1, SuccessStep DEF NumberSold
<1>10. ASSUME NEW t \in SmsTasks, ActivationUnusable(t) \/ QueryCounted(t) PROVE AnswerStep
  <2>1. orderAt' = [orderAt EXCEPT ![t] = orderAt'[t]]
    BY <1>10, SmsParts DEF ActivationUnusable, QueryCounted, HeldInv
  <2> QED BY <1>10, <2>1, SuccessStep DEF ActivationUnusable, QueryCounted
<1>11. ASSUME NEW t \in SmsTasks, NEW k \in SmsKeys, ReserveKey(t, k) PROVE AnswerStep
  <2>1. {"asking", "querying"} \subseteq OrderPhases
    BY DEF OrderPhases
  <2> QED BY <1>11, <2>1, OtherStep DEF ReserveKey
<1>12. ASSUME NEW t \in SmsTasks, NEW kind \in KeyErrors, PollFails(t, kind) PROVE AnswerStep
  BY <1>12, OtherStep DEF PollFails, orderVars
<1>13. ASSUME NEW t \in SmsTasks, NEW kind \in KeyErrors,
              RequestFails(t, kind) \/ CompleteFails(t, kind) \/ CancelFails(t, kind)
       PROVE  AnswerStep
  BY <1>13, TaskStep DEF CancelFails
<1>14. ASSUME NEW t \in SmsTasks,
              \/ ChoosePlatform(t) \/ NoKeyLeft(t) \/ QueryAnswered(t) \/ DropUnusable(t)
              \/ CompleteOrder(t) \/ CancelConfirmed(t) \/ CancelUnconfirmed(t) \/ NoteCancel(t)
       PROVE  AnswerStep
  <2>1. "other" \in KeyErrors
    BY DEF KeyErrors
  <2> QED BY <1>14, <2>1, TaskStep DEF CancelUnconfirmed
<1> QED BY <1>1, <1>2, <1>3, <1>4, <1>5, <1>6, <1>7, <1>8, <1>9, <1>10, <1>11, <1>12, <1>13,
           <1>14 DEF SmsNext

-------------------------------------------------------------------------------

\* Every variable of the order and key bookkeeping stays in its range.
THEOREM SmsTypeCorrect == SmsSpec => []SmsTypeOK
<1>1. SmsInv => SmsTypeOK
  BY DEF SmsInv, RevisionInv, HeldInv, NumberInv, RestInv, SmsTypeOK
<1> QED BY <1>1, SmsStart, SmsStep, PTL DEF SmsSpec

\* A key's count is the number of tasks that use it, a refund is only recorded for a
\* number the platform took back, and a number that is paid for comes into somebody's
\* hands unless its purchase is reported as failed, and leaves them only when the process
\* dies before it is queued or the cancellation of an unusable activation fails: on every
\* other error path, lost answer and sweep, for any number of keys, tasks and numbers.
THEOREM MoneyAccounted == SmsSpec => MoneyIsAccounted
<1>1. SmsInv => HeldExact /\ RefundIsReal
  BY DEF SmsInv, HeldInv, NumberInv
<1>2. SmsInv /\ [SmsNext]_smsVars => [MoneyStep]_smsVars
  BY MoneyEach
<1> QED BY <1>1, <1>2, SmsStart, SmsStep, PTL DEF SmsSpec, MoneyIsAccounted, MoneyStep

\* The answer of a call, or of a preflight, that was overtaken by a newer one of the same
\* key leaves the key's health alone.
THEOREM AnswersOrdered == SmsSpec => AnswersInOrder
<1>1. SmsInv /\ [SmsNext]_smsVars => [AnswerStep]_smsVars
  BY AnswersStep
<1> QED BY <1>1, SmsStart, SmsStep, PTL DEF SmsSpec, AnswersInOrder, AnswerStep
================================================================================
