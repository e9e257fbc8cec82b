------------------------------ MODULE HostOverview ------------------------------
(***************************************************************************)
(* The page of the hosts (ConnectionList): the state of every saved SSH    *)
(* host is asked for again and again, a few hosts at a time, with a longer *)
(* wait after every failure (retryBackoff.ts), and the user is asked for a *)
(* password that is missing or refused.                                    *)
(*                                                                         *)
(* Time is in steps of the interval between two rounds.  What a host does  *)
(* is chosen once: it answers in time, fails, refuses the password or never says   *)
(* anything.                                                               *)
(***************************************************************************)
EXTENDS Naturals, Sequences, SequencesExt, FiniteSets

CONSTANTS SavedHosts,   \* savedProfiles, as sorted
          Natures,      \* what each of them may be, for the runs
          AtATime,      \* SSH_OVERVIEW_CONCURRENCY
          MaxDelay,     \* HOST_OVERVIEW_MAXIMUM_RETRY_INTERVAL_MS
          RequestTime,  \* AUTO_REFRESH_TIMEOUT_MS
          MaxHostEdits  \* changes of profiles, passwords and sessions, and clicks

ASSUME HostOverviewAssumption ==
    /\ IsInjective(SavedHosts) /\ AtATime \in Nat \ {0} /\ MaxDelay \in Nat \ {0}
    /\ RequestTime \in Nat \ {0} /\ MaxHostEdits \in Nat
    /\ Natures \subseteq [Range(SavedHosts) -> {"answers", "fails", "refuses", "hangs"}]

HostIds == Range(SavedHosts)

VARIABLES
    nature,     \* what a host does when it is asked
    password,   \* the hosts whose password is known, or not needed
    context,    \* hostOverviewRetryContext: a number for each
    overview,   \* overviewByProfile: what is shown, and whether it loads
    hostRequest,    \* the request of a host (refreshingProfileIds)
    retry,      \* overviewRetryByProfileRef
    rounds,     \* refreshSavedOverviews, by the timer and by the button
    prompt,     \* automaticCredentialPromptRef
    openDialog,     \* the host whose dialog is open
    due,        \* a timer of the page is due
    hostEdits   \* changes and clicks so far

listVars == <<overview, hostRequest, retry, rounds, prompt, openDialog, due>>
hostVars == <<nature, password, context, listVars, hostEdits>>

NoHost == "none"
NoRequest == [by |-> "none", left |-> 0, context |-> 0]
NoRetry == [failures |-> 0, context |-> 0, wait |-> 0]
NoRound == [runs |-> FALSE, queue |-> <<>>, contexts |-> <<>>, stop |-> FALSE, asked |-> FALSE,
            failed |-> FALSE, missing |-> FALSE]

HostInit ==
    /\ nature \in Natures /\ password \in {HostIds, HostIds \ {Head(SavedHosts)}}
    /\ context = [h \in HostIds |-> 1]
    /\ overview = [h \in HostIds |-> [data |-> FALSE, error |-> FALSE, loading |-> FALSE]]
    /\ hostRequest = [h \in HostIds |-> NoRequest] /\ retry = [h \in HostIds |-> NoRetry]
    /\ rounds = [b \in {"timer", "button"} |-> NoRound]
    /\ prompt = <<>> /\ openDialog = NoHost /\ due = TRUE /\ hostEdits = 0

Loading(h) == hostRequest[h] # NoRequest

-----------------------------------------------------------------------------
(* Faulty variants of what follows, for the properties to tell apart.       *)

\* The wait does not grow.
DelayFlat(failures) == 1

-----------------------------------------------------------------------------
(* Requests.                                                                *)

\* exponentialBackoffDelay, of one interval.
Delay(failures) == LET d == 2^failures IN IF d < MaxDelay THEN d ELSE MaxDelay

\* refreshOverview, up to its await.
AskHost(h, by, ctx) ==
    /\ hostRequest' = [hostRequest EXCEPT ![h] = [by |-> by, left |-> RequestTime, context |-> ctx]]
    /\ overview' = [overview EXCEPT ![h].loading = TRUE, ![h].error = FALSE]

\* refreshOverview, answered.
HostSays(h) ==
    /\ hostRequest' = [hostRequest EXCEPT ![h] = NoRequest]
    /\ overview' = [overview EXCEPT ![h] = [data |-> TRUE, error |-> FALSE, loading |-> FALSE]]
    /\ retry' = [retry EXCEPT ![h] = NoRetry]

\* refreshOverview, its catch: failures are counted within one context.
FailsIn(h) ==
    LET ctx  == hostRequest[h].context
        many == IF retry[h].context = ctx THEN retry[h].failures + 1 ELSE 1
    IN /\ hostRequest' = [hostRequest EXCEPT ![h] = NoRequest]
       /\ overview' = [overview EXCEPT ![h].loading = FALSE, ![h].error = TRUE]
       /\ retry' = [retry EXCEPT ![h] =
            [failures |-> IF many < 4 THEN many ELSE 4, context |-> ctx, wait |-> Delay(many)]]

\* A host that is there answers.
HostAnswers(h) ==
    /\ Loading(h) /\ nature[h] = "answers" /\ HostSays(h)
    /\ UNCHANGED <<nature, password, context, rounds, prompt, openDialog, due, hostEdits>>

\* It fails, or the time of an automatic request is over.
HostFails(h) ==
    /\ Loading(h)
    /\ \/ nature[h] = "fails"
       \/ nature[h] = "hangs" /\ hostRequest[h].by = "timer" /\ hostRequest[h].left = 0
    /\ FailsIn(h)
    /\ UNCHANGED <<nature, password, context, rounds, prompt, openDialog, due, hostEdits>>

\* What a round does about a password that is refused: the user is asked once,
\* and a round of the timer starts no more requests.
Recovered(h, by) ==
    [rounds EXCEPT ![by].failed = TRUE, ![by].asked = TRUE, ![by].stop = (by = "timer")]

\* The password is refused.
HostRefuses(h) ==
    LET by   == hostRequest[h].by
        asks == by = "click" \/ ~rounds[by].asked
    IN /\ Loading(h) /\ nature[h] = "refuses" /\ FailsIn(h)
       /\ rounds' = IF by = "click" THEN rounds ELSE Recovered(h, by)
       /\ prompt' = IF asks /\ by = "timer" THEN <<"error", h, context[h]>> ELSE prompt
       /\ openDialog' = IF asks THEN h ELSE openDialog
       /\ UNCHANGED <<nature, password, context, due, hostEdits>>

-----------------------------------------------------------------------------
(* Rounds.                                                                  *)

\* The hosts a round of the timer asks: not those without a password, nor those
\* that failed as they are now and still wait.
Waits(h) == retry[h] # NoRetry /\ retry[h].context = context[h] /\ retry[h].wait > 0

\* refreshSavedOverviews, by the timer: at most one at a time.
TimerRound ==
    LET missing == SelectSeq(SavedHosts, LAMBDA h : h \notin password)
        key     == IF missing = <<>> THEN <<>> ELSE <<"missing", Head(missing), context[Head(missing)]>>
    IN /\ due /\ due' = FALSE
       /\ IF rounds["timer"].runs THEN UNCHANGED <<rounds, prompt, openDialog>>
          ELSE /\ prompt' = IF key = <<>> THEN prompt ELSE key
               /\ openDialog' = IF key = <<>> \/ prompt = key THEN openDialog ELSE Head(missing)
               /\ rounds' = [rounds EXCEPT !["timer"] =
                    [NoRound EXCEPT !.runs = TRUE, !.contexts = context,
                       !.queue = SelectSeq(SavedHosts, LAMBDA h : h \in password /\ ~Waits(h)),
                       !.missing = missing # <<>>, !.asked = prompt' # <<>>]]
       /\ UNCHANGED <<nature, password, context, overview, hostRequest, retry, hostEdits>>

\* refreshAll: the button, while nothing loads.
ButtonRound ==
    /\ ~rounds["button"].runs /\ hostEdits < MaxHostEdits /\ \A h \in HostIds : ~Loading(h)
    /\ rounds' = [rounds EXCEPT !["button"] =
         [NoRound EXCEPT !.runs = TRUE, !.contexts = context, !.queue = SavedHosts]]
    /\ hostEdits' = hostEdits + 1
    /\ UNCHANGED <<nature, password, context, overview, hostRequest, retry, prompt, openDialog, due>>

\* runWithConcurrency: a worker takes the next host; one that is asked already,
\* or after the round was stopped, is passed over.
NextHost(by) ==
    LET round == rounds[by] IN
    /\ round.queue # <<>>
    /\ Cardinality({h \in HostIds : hostRequest[h].by = by}) < AtATime
    /\ rounds' = [rounds EXCEPT ![by].queue = Tail(round.queue)]
    /\ IF round.stop \/ Loading(Head(round.queue)) THEN UNCHANGED <<overview, hostRequest>>
       ELSE AskHost(Head(round.queue), by, round.contexts[Head(round.queue)])
    /\ UNCHANGED <<nature, password, context, retry, prompt, openDialog, due, hostEdits>>

\* The round is over.
RoundEnds(by) ==
    /\ rounds[by].runs /\ rounds[by].queue = <<>> /\ \A h \in HostIds : hostRequest[h].by # by
    /\ rounds' = [rounds EXCEPT ![by] = NoRound]
    /\ prompt' = IF by = "timer" /\ ~rounds[by].missing /\ ~rounds[by].failed THEN <<>> ELSE prompt
    /\ UNCHANGED <<nature, password, context, overview, hostRequest, retry, openDialog, due, hostEdits>>

\* What is left of the time of a request.
Clock(h) == IF hostRequest[h].by = "timer" THEN hostRequest[h].left - 1 ELSE hostRequest[h].left

\* The interval is over.  Timers that are due come first.
Tick ==
    /\ ~due /\ \A h \in HostIds : hostRequest[h].by = "timer" => hostRequest[h].left > 0
    /\ \A b \in DOMAIN rounds : rounds[b].runs => \E h \in HostIds : hostRequest[h].by = b
    /\ due' = TRUE
    /\ hostRequest' = [h \in HostIds |-> [hostRequest[h] EXCEPT !.left = Clock(h)]]
    /\ retry' = [h \in HostIds |->
         [retry[h] EXCEPT !.wait = IF retry[h].wait = 0 THEN 0 ELSE retry[h].wait - 1]]
    /\ UNCHANGED <<nature, password, context, overview, rounds, prompt, openDialog, hostEdits>>

-----------------------------------------------------------------------------
(* The user.                                                                *)

\* One host, by its card.
ClickHost(h) ==
    /\ ~Loading(h) /\ hostEdits < MaxHostEdits /\ hostEdits' = hostEdits + 1
    /\ AskHost(h, "click", context[h])
    /\ UNCHANGED <<nature, password, context, retry, rounds, prompt, openDialog, due>>

\* A profile is saved, or a session of it comes or goes: another context, and
\* the timers of the page start anew (autoRefreshKey).
Changes(h) ==
    /\ hostEdits < MaxHostEdits /\ hostEdits' = hostEdits + 1
    /\ context' = [context EXCEPT ![h] = @ + 1] /\ due' = TRUE
    /\ password' \in {password, password \cup {h}}
    /\ openDialog' \in {openDialog, NoHost}
    /\ UNCHANGED <<nature, overview, hostRequest, retry, rounds, prompt>>

CloseHostDialog ==
    /\ openDialog # NoHost /\ openDialog' = NoHost
    /\ UNCHANGED <<nature, password, context, overview, hostRequest, retry, rounds, prompt, due, hostEdits>>

-----------------------------------------------------------------------------
HostReplies(h) == HostAnswers(h) \/ HostFails(h) \/ HostRefuses(h)
RoundSteps(b) == NextHost(b) \/ RoundEnds(b)

HostNext ==
    \/ TimerRound \/ RoundSteps("timer") \/ RoundSteps("button") \/ Tick \/ ButtonRound \/ CloseHostDialog
    \/ \E h \in HostIds : HostReplies(h) \/ ClickHost(h) \/ Changes(h)

\* Hosts that say anything do so in the end, rounds go on and time passes.
HostFairness ==
    /\ \A h \in HostIds : WF_hostVars(HostReplies(h))
    /\ WF_hostVars(RoundSteps("timer")) /\ WF_hostVars(RoundSteps("button"))
    /\ WF_hostVars(TimerRound) /\ WF_hostVars(Tick)

HostSpec == HostInit /\ [][HostNext]_hostVars /\ HostFairness

\* A host that answers is shown as it is in the end, whatever the hosts before it
\* in the list do: a refused password stops the rest of a round, but its host
\* waits longer and longer.
ReachableIsShown ==
    \A h \in HostIds : nature[h] = "answers" /\ h \in password ~> overview[h].data
=============================================================================
