------------------------- MODULE ManualVerification -------------------------
(***************************************************************************)
(* The broker of manually entered verification codes and the race between  *)
(* an automatic code and a person's (manual_verification_runtime.py), with *)
(* its HTTP routes (manual_verification_routes.py).  One task of one kind: *)
(* it waits for one code after the other, each time with an automatic      *)
(* worker of its own, which nobody joins.                                  *)
(*                                                                         *)
(* The broker's calls are atomic: they hold its condition.  The race looks *)
(* at the broker and at its own result queue in separate steps.            *)
(***************************************************************************)
EXTENDS Common

CONSTANTS
    MaxWaits,       \* bound: waits of the task
    MaxPosts,       \* bound: codes a person sends
    MaxPrompts      \* bound: prompts a person opens come among the first MaxPrompts

ASSUME ManualAssumption == MaxWaits \in Nat /\ MaxPosts \in Nat /\ MaxPrompts \in Nat

VARIABLES
    prompts,        \* every prompt ever opened, in order
    shown,          \* the one in broker._prompts, or 0
    tombstone,      \* why the last one left, and its generation
    generation,     \* the task's generation
    waitNo,         \* the wait in progress or the last one
    raceAt,         \* where wait_with_manual_fallback is
    awaited,        \* the prompt that broker.wait holds on to
    fallback,       \* the race is inside the block that clears manual_open
    manualOpen,     \* waits whose manual_open event is set
    fetcher,        \* the automatic worker of each wait
    results,        \* the wait's result_queue
    waitEnd,        \* what each wait returned or raised
    posts, accepted,\* codes sent by a person; those the broker accepted
    taskStop        \* the task's stop event

raceVars   == <<generation, waitNo, raceAt, awaited, fallback, waitEnd>>
brokerVars == <<prompts, shown, tombstone>>
workerVars == <<fetcher, results>>
manualVars == <<brokerVars, raceVars, workerVars, manualOpen, posts, accepted, taskStop>>

Waits    == 1..MaxWaits
NoCode   == <<"none", 0>>
Fetched(w) == <<"fetched", w>>
Typed(n) == <<"typed", n>>
Raised(why) == <<why, 0>>
Codes    == {Fetched(w) : w \in Waits} \cup {Typed(n) : n \in 1..MaxPosts}
Gen(w)   == waitEnd[w].gen
LivePrompts(i)  == i # 0 /\ prompts[i].live
ShownFor(g) == shown # 0 /\ prompts[shown].gen = g

ManualInit ==
    /\ prompts = <<>> /\ shown = 0 /\ tombstone = [gen |-> 0, why |-> "none"]
    /\ generation = 0 /\ waitNo = 0 /\ raceAt = "off" /\ awaited = 0 /\ fallback = FALSE
    /\ manualOpen = {} /\ fetcher = [w \in Waits |-> "off"]
    /\ results = [w \in Waits |-> <<>>]
    /\ waitEnd = [w \in Waits |-> [gen |-> 0, code |-> NoCode]]
    /\ posts = 0 /\ accepted = {} /\ taskStop = FALSE

-----------------------------------------------------------------------------
(* The broker.                                                             *)

Dropped(i) == FALSE

\* _retire removes whatever prompt the task has by now.
Retired(i, why) ==
    /\ prompts' = [prompts EXCEPT ![i].live = Dropped(i)]
    /\ shown' = 0 /\ tombstone' = [gen |-> prompts[i].gen, why |-> why]

Consumed(i) == Retired(i, "consumed")

\* mutant: any prompt of the task takes the code.
TakesAny(g) == shown # 0 /\ prompts[shown].code = NoCode
\* submit takes one code, for the prompt's own generation.
Takes(g) == ShownFor(g) /\ prompts[shown].code = NoCode
Submitted(g, code) ==
    /\ prompts' = IF Takes(g) THEN [prompts EXCEPT ![shown].code = code] ELSE prompts
    /\ UNCHANGED <<shown, tombstone>>

\* open returns the prompt that is shown, or supersedes one of another generation.
Opened(g) ==
    IF ShownFor(g) THEN UNCHANGED brokerVars
    ELSE LET old == IF shown = 0 THEN prompts
                    ELSE [prompts EXCEPT ![shown].live = Dropped(shown)]
         IN  /\ prompts' = Append(old, [gen |-> g, code |-> NoCode, live |-> TRUE])
             /\ shown' = Len(prompts) + 1 /\ tombstone' = [gen |-> 0, why |-> "none"]

\* A prompt's window closes.
ExpirePrompt ==
    \E i \in 1..Len(prompts) :
        /\ prompts[i].live
        /\ IF i = shown THEN Retired(i, "expired")
           ELSE /\ prompts' = [prompts EXCEPT ![i].live = FALSE]
                /\ UNCHANGED <<shown, tombstone>>
        /\ UNCHANGED <<raceVars, workerVars, manualOpen, posts, accepted, taskStop>>

TombstoneForgotten ==
    /\ tombstone.why # "none" /\ tombstone' = [gen |-> 0, why |-> "none"]
    /\ UNCHANGED <<prompts, shown, raceVars, workerVars, manualOpen, posts, accepted,
                   taskStop>>

-----------------------------------------------------------------------------
(* The person.                                                             *)

\* Generations a page may have read.
RouteGenerations == 1..generation

\* The route opens a prompt for the generation the page knew.
PersonOpens(g) ==
    /\ Len(prompts) < MaxPrompts /\ ~ShownFor(g) /\ Opened(g)
    /\ UNCHANGED <<raceVars, workerVars, manualOpen, posts, accepted, taskStop>>

\* The route refuses another generation than the task's while a prompt is shown.
PersonPosts(g) ==
    /\ posts < MaxPosts /\ posts' = posts + 1
    /\ \/ /\ shown # 0 => g = generation
          /\ Submitted(g, Typed(posts + 1))
          /\ accepted' = IF Takes(g) THEN accepted \cup {<<Typed(posts + 1), shown>>}
                         ELSE accepted
       \/ shown # 0 /\ g # generation /\ UNCHANGED <<brokerVars, accepted>>
    /\ UNCHANGED <<raceVars, workerVars, manualOpen, taskStop>>

StopTask ==
    /\ ~taskStop /\ taskStop' = TRUE
    /\ UNCHANGED <<brokerVars, raceVars, workerVars, manualOpen, posts, accepted>>

-----------------------------------------------------------------------------
(* The automatic worker: run_automatic.                                    *)

Enqueued(w, kind) == results' = [results EXCEPT ![w] = Append(@, kind)]

\* It has a code and looks whether a prompt is open ...
FetchCode(w) ==
    /\ fetcher[w] = "fetching"
    /\ fetcher' = [fetcher EXCEPT ![w] = IF w \in manualOpen THEN "posting" ELSE "handing"]
    /\ UNCHANGED <<brokerVars, raceVars, results, manualOpen, posts, accepted, taskStop>>

\* ... posts it then like a person does ...
FetcherPosts(w) ==
    /\ fetcher[w] = "posting" /\ Submitted(Gen(w), Fetched(w))
    /\ fetcher' = [fetcher EXCEPT ![w] = "handing"]
    /\ UNCHANGED <<raceVars, results, manualOpen, posts, accepted, taskStop>>

\* ... and hands it to the race in any case.
HandCode(w) ==
    /\ fetcher[w] = "handing" /\ Enqueued(w, "code")
    /\ fetcher' = [fetcher EXCEPT ![w] = "over"]
    /\ UNCHANGED <<brokerVars, raceVars, manualOpen, posts, accepted, taskStop>>

\* No code in time, or an error that is not about time.
FetchFails(w, kind) ==
    /\ fetcher[w] = "fetching" /\ Enqueued(w, kind)
    /\ fetcher' = [fetcher EXCEPT ![w] = "over"]
    /\ UNCHANGED <<brokerVars, raceVars, manualOpen, posts, accepted, taskStop>>

-----------------------------------------------------------------------------
(* The race: wait_with_manual_fallback.                                    *)

\* The generation counts the task's stages: two waits may share one.
StartWait ==
    /\ raceAt = "off" /\ waitNo < MaxWaits /\ ~taskStop
    /\ \E g \in {generation, generation + 1} :
          /\ g = generation => waitNo > 0
          /\ generation' = g
          /\ waitEnd' = [waitEnd EXCEPT ![waitNo + 1].gen = g]
    /\ waitNo' = waitNo + 1 /\ raceAt' = "looking" /\ fallback' = FALSE
    /\ fetcher' = [fetcher EXCEPT ![waitNo + 1] = "fetching"]
    /\ UNCHANGED <<brokerVars, awaited, results, manualOpen, posts, accepted, taskStop>>

EndLeaving(open, code) ==
    /\ raceAt' = "off" /\ awaited' = 0 /\ fallback' = FALSE
    /\ waitEnd' = [waitEnd EXCEPT ![waitNo].code = code]
    /\ manualOpen' = open
    /\ UNCHANGED <<generation, waitNo>>
End(code) == EndLeaving(IF fallback THEN manualOpen \ {waitNo} ELSE manualOpen, code)
MoveTo(p) == raceAt' = p /\ UNCHANGED <<generation, waitNo, awaited, waitEnd>>

CancelTask(why) == IF shown = 0 THEN UNCHANGED brokerVars ELSE Retired(shown, why)

\* The top of the loop: stopped, or a prompt the person opened.
LookForPrompt ==
    /\ raceAt = "looking"
    /\ \/ taskStop /\ CancelTask("stopped") /\ End(Raised("stopped"))
       \/ /\ ~taskStop /\ ShownFor(Gen(waitNo))
          /\ manualOpen' = manualOpen \cup {waitNo}
          /\ MoveTo(IF prompts[shown].code # NoCode THEN "entering" ELSE "dequeuing")
          /\ UNCHANGED <<fallback, brokerVars>>
       \/ /\ ~taskStop /\ ~ShownFor(Gen(waitNo))
          /\ MoveTo("dequeuing") /\ UNCHANGED <<fallback, manualOpen, brokerVars>>
    /\ UNCHANGED <<workerVars, posts, accepted, taskStop>>

\* The bottom: a result, the automatic deadline, or another round.
DequeueResult ==
    LET queue == results[waitNo]
    IN  /\ raceAt = "dequeuing"
        /\ \/ /\ queue # <<>> /\ Head(queue) = "code" /\ waitNo \in manualOpen
              /\ Submitted(Gen(waitNo), Fetched(waitNo)) /\ MoveTo("entering")
              /\ results' = [results EXCEPT ![waitNo] = Tail(queue)]
              /\ UNCHANGED <<fallback, manualOpen>>
           \/ /\ queue # <<>> /\ Head(queue) = "code" /\ waitNo \notin manualOpen
              /\ CancelTask("stopped") /\ End(Fetched(waitNo))
              /\ results' = [results EXCEPT ![waitNo] = Tail(queue)]
           \/ /\ queue # <<>> /\ Head(queue) = "fatal"
              /\ End(Raised("failed")) /\ UNCHANGED brokerVars
              /\ results' = [results EXCEPT ![waitNo] = Tail(queue)]
           \/ /\ queue # <<>> /\ Head(queue) = "late" /\ MoveTo("opening")
              /\ results' = [results EXCEPT ![waitNo] = Tail(queue)]
              /\ UNCHANGED <<fallback, manualOpen, brokerVars>>
           \/ /\ queue = <<>> /\ \E p \in {"opening", "looking"} : MoveTo(p)
              /\ UNCHANGED <<fallback, manualOpen, brokerVars, results>>
        /\ UNCHANGED <<fetcher, posts, accepted, taskStop>>

\* The miss is noted, and the prompt opened.
OpenFallback ==
    /\ raceAt = "opening" /\ "fatal" \notin {results[waitNo][i] : i \in 1..Len(results[waitNo])}
    /\ Opened(Gen(waitNo)) /\ MoveTo("collecting") /\ fallback' = TRUE
    /\ manualOpen' = manualOpen \cup {waitNo}
    /\ UNCHANGED <<workerVars, posts, accepted, taskStop>>

\* The callback that notes the miss raises, and its handler names a `self` that a function has
\* not: the race ends in a NameError.
NoteFails ==
    /\ raceAt = "opening" /\ results[waitNo] = <<>> /\ waitNo \notin manualOpen
    /\ End(Raised("NameError"))
    /\ UNCHANGED <<brokerVars, workerVars, posts, accepted, taskStop>>

\* So does the announcement of a prompt that is on display or has just been opened,
\* and manual_open stays set.  (The code announces a prompt once; here each round
\* does.)
AnnouncementFails ==
    /\ \/ raceAt = "looking" /\ ~taskStop /\ ShownFor(Gen(waitNo))
       \/ raceAt = "opening" /\ "fatal" \notin {results[waitNo][i] : i \in 1..Len(results[waitNo])}
    /\ Opened(Gen(waitNo)) /\ EndLeaving(manualOpen \cup {waitNo}, Raised("NameError"))
    /\ UNCHANGED <<workerVars, posts, accepted, taskStop>>

\* A result that came meanwhile: the code is posted, a real error ends the race.
CollectResults ==
    LET found == {results[waitNo][i] : i \in 1..Len(results[waitNo])}
    IN  /\ raceAt = "collecting" \/ (raceAt = "opening" /\ "fatal" \in found)
        /\ results' = [results EXCEPT ![waitNo] = <<>>]
        /\ IF "fatal" \in found THEN End(Raised("failed")) /\ UNCHANGED brokerVars
           ELSE /\ MoveTo("entering") /\ UNCHANGED <<fallback, manualOpen>>
                /\ IF "code" \in found THEN Submitted(Gen(waitNo), Fetched(waitNo))
                   ELSE UNCHANGED brokerVars
        /\ UNCHANGED <<fetcher, posts, accepted, taskStop>>

\* broker.wait: takes hold of the prompt that is shown, if it is the wait's own.
EnterWait ==
    /\ raceAt = "entering"
    /\ \/ /\ ShownFor(Gen(waitNo))
          /\ raceAt' = "waiting" /\ awaited' = shown
          /\ UNCHANGED <<generation, waitNo, fallback, waitEnd, manualOpen>>
       \/ /\ ~ShownFor(Gen(waitNo))
          /\ End(Raised("lost"))
    /\ UNCHANGED <<brokerVars, workerVars, posts, accepted, taskStop>>

\* A round of broker.wait: stopped, a code, or a prompt that is no longer open.
WakeUp ==
    LET p == prompts[awaited]
    IN  /\ raceAt = "waiting"
        /\ \/ taskStop /\ Retired(awaited, "stopped") /\ End(Raised("stopped"))
           \/ /\ ~taskStop /\ p.code # NoCode
              /\ Consumed(awaited) /\ End(p.code)
           \/ /\ ~taskStop /\ p.code = NoCode /\ ~p.live
              /\ Retired(awaited, "expired") /\ End(Raised("expired"))
        /\ UNCHANGED <<workerVars, posts, accepted, taskStop>>

RaceStep == \/ LookForPrompt \/ DequeueResult \/ OpenFallback \/ NoteFails
            \/ AnnouncementFails \/ CollectResults \/ EnterWait \/ WakeUp

ManualNext ==
    \/ RaceStep \/ StartWait \/ ExpirePrompt \/ TombstoneForgotten \/ StopTask
    \/ \E g \in RouteGenerations : PersonOpens(g) \/ PersonPosts(g)
    \/ \E w \in Waits : \/ FetchCode(w) \/ FetcherPosts(w) \/ HandCode(w)
                        \/ \E kind \in {"late", "fatal"} : FetchFails(w, kind)

ManualSpec == ManualInit /\ [][ManualNext]_manualVars

-----------------------------------------------------------------------------
ManualTypeOK ==
    /\ shown \in 0..Len(prompts) /\ awaited \in 0..Len(prompts) /\ Len(prompts) <= MaxPrompts + MaxWaits
    /\ \A i \in 1..Len(prompts) :
          prompts[i] \in [gen : 1..MaxWaits, code : Codes \cup {NoCode}, live : BOOLEAN]
    /\ tombstone.gen \in 0..MaxWaits /\ generation \in 0..MaxWaits /\ waitNo \in 0..MaxWaits
    /\ raceAt \in {"off", "looking", "dequeuing", "opening", "collecting", "entering",
                   "waiting"}
    /\ fallback \in BOOLEAN /\ manualOpen \subseteq Waits
    /\ fetcher \in [Waits -> {"off", "fetching", "posting", "handing", "over"}]
    /\ posts \in 0..MaxPosts /\ taskStop \in BOOLEAN

\* A wait never returns a code that was fetched, or typed, for another generation,
\* though automatic workers outlive their waits and the next wait's prompt is open
\* by then.  (Within one generation a late worker's code may serve the next wait.)
CodeIsOfThisStage ==
    \A w \in Waits : waitEnd[w].code \in Codes =>
        \/ \E v \in Waits : waitEnd[w].code = Fetched(v) /\ Gen(v) = Gen(w)
        \/ \E a \in accepted : a[1] = waitEnd[w].code /\ prompts[a[2]].gen = Gen(w)

\* "Consume each prompt once": no code is returned by two waits.
CodeUsedOnce ==
    \A v, w \in Waits : v # w /\ waitEnd[v].code \in Codes
                            => waitEnd[v].code # waitEnd[w].code

\* While a task waits at an open prompt, that prompt is the one on display, whoever
\* opened, superseded or retired prompts meanwhile: what a person types arrives.
AwaitedIsShown == raceAt = "waiting" /\ LivePrompts(awaited) => shown = awaited

\* A code reaches the wait it was meant for, once, and no other.
CodesReachTheirWait == CodeIsOfThisStage /\ CodeUsedOnce /\ AwaitedIsShown
=============================================================================
