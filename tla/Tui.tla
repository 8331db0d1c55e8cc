-------------------------------- MODULE Tui --------------------------------
(***************************************************************************)
(* The terminal UI, a client that polls: its refresh timer asks for a       *)
(* snapshot, which carries what a run's transcript grew by since the       *)
(* cursor the UI sent and the inbound requests that are pending, and the    *)
(* answer is folded into state that keys and clicks change in between      *)
(* (tui/app.js, tui/state.js; tuiSnapshot in runtime/supervisor.js).       *)
(*                                                                         *)
(* One run is shown.  Of the UI's state this keeps what decides where a     *)
(* keypress goes and what it acts on: the focus and the requests panel.    *)
(***************************************************************************)
EXTENDS EventPump, FiniteSets, FiniteSetsExt

CONSTANTS
    MaxTicks,    \* bound: refreshes that could be under way at once
    limit,       \* rows of a transcript that one snapshot carries
    MaxRequests  \* bound: inbound requests, numbered as they land

ASSUME TuiAssumption == MaxTicks \in Nat /\ limit \in Nat \ {0} /\ MaxRequests \in Nat

VARIABLES
    transcript,  \* the run's lines, as intervals of rows, and the cursor
    slot,        \* each refresh
    ui,          \* focus, and the requests panel; `opened` is history
    requests     \* the requests table: how many landed, which are pending

tuiVars == <<transcript, slot, ui, requests>>

Idle == [pc |-> "idle"]
None == 0
Ticks == 1..MaxTicks
Requests == 1..MaxRequests
FOCUS == {"tree", "pane", "chat", "requests", "requestDetail"}

TuiTypeOK ==
    /\ \A n \in DOMAIN transcript.shown : transcript.shown[n] \in (DOMAIN event_log) \X (DOMAIN event_log)
    /\ transcript.announced \subseteq DOMAIN event_log
    /\ transcript.cursor \in 0..Len(event_log)
    /\ \A t \in Ticks : slot[t].pc \in {"idle", "asked", "answered", "hung"}
    /\ ui.focus \in FOCUS /\ ui.hidden \in BOOLEAN
    /\ ui.requests \subseteq Requests /\ {ui.selected, ui.opened} \subseteq Requests \cup {None}
    /\ requests.landed \in 0..MaxRequests /\ requests.pending \subseteq 1..requests.landed

initialState == [focus |-> "tree", hidden |-> FALSE, requests |-> {}, selected |-> None, opened |-> None]

TuiInit ==
    /\ transcript = [shown |-> <<>>, announced |-> {}, cursor |-> 0, provisional |-> {}]
    /\ slot = [t \in Ticks |-> Idle]
    /\ ui = initialState
    /\ requests = [landed |-> 0, pending |-> {}]
-----------------------------------------------------------------------------
(* The supervisor's answer *)
IsDelta(row) == event_log[row] = "assistant.delta"

\* Adjacent deltas are one line of prose, every other row is a line.
collapseTranscript(first, last) ==
    LET prose(lo, hi) == \A row \in lo..hi : IsDelta(row)
        lines == {line \in (first..last) \X (first..last) :
                     LET lo == line[1]  hi == line[2]
                     IN /\ lo <= hi
                        /\ lo = hi \/ prose(lo, hi)
                        /\ ~(lo > first /\ prose(lo - 1, hi)) /\ ~(hi < last /\ prose(lo, hi + 1))}
    IN CHOOSE s \in [1..Cardinality(lines) -> lines] :
          \A m, n \in DOMAIN s : m < n => s[m][1] < s[n][1]

\* the newest rows after the cursor, and how many older ones are left out
listTier1EventsSince(after) ==
    LET total == Len(event_log)
        first == IF total - limit > after THEN total - limit + 1 ELSE after + 1
    IN [rows |-> first..total, skipped |-> first - after - 1]

\* The cursor stays before deltas that end the slice: they may go on.
transcriptSince(after) ==
    LET slice == listTier1EventsSince(after)
        first == after + slice.skipped + 1
        settled == {row \in slice.rows : ~IsDelta(row)}
        last == IF settled = {} THEN first - 1 ELSE Max(settled)
    IN [lines |-> collapseTranscript(first, last), provisional |-> (last + 1)..Len(event_log),
        cursor |-> IF settled = {} THEN after ELSE last, skipped |-> slice.skipped]
-----------------------------------------------------------------------------
(* The client: one refresh at a time, whatever the timer does. *)
Overlapping(t) == slot[t] = Idle /\ \A other \in 1..(t - 1) : slot[other] # Idle
SingleFlight(t) == t = 1 /\ \A other \in Ticks : slot[other] = Idle

Tick(t) ==
    /\ SingleFlight(t)
    /\ slot' = [slot EXCEPT ![t] = [pc |-> "asked", after |-> transcript.cursor]]
    /\ UNCHANGED <<transcript, ui, requests, stimuli>>

tuiSnapshot(t) ==
    /\ slot[t].pc = "asked"
    /\ slot' = [slot EXCEPT ![t] = [pc |-> "answered", slice |-> transcriptSince(slot[t].after),
                                    requests |-> requests.pending]]
    /\ UNCHANGED <<transcript, ui, requests, stimuli>>

(* The request fails: the supervisor is unreachable or takes five seconds.  *)
(* It hangs when the connection closes before an answer: the client then    *)
(* neither resolves nor rejects.                                           *)
Fails(t) ==
    /\ Stimulus
    /\ slot[t].pc = "asked"
    /\ \E pc \in {"idle", "hung"} : slot' = [slot EXCEPT ![t] = [pc |-> pc]]
    /\ UNCHANGED <<transcript, ui, requests>>

applyTranscripts(slice) ==
    transcript' =
        [shown |-> transcript.shown \o slice.lines,
         announced |-> transcript.announced
                         \cup (transcript.cursor + 1)..(transcript.cursor + slice.skipped),
         cursor |-> IF slice.cursor > transcript.cursor THEN slice.cursor ELSE transcript.cursor,
         provisional |-> slice.provisional]

StaysOpen(focus) == focus
LeaveDetail(focus) == IF focus = "requestDetail" THEN "requests" ELSE focus

\* The list is newest first.
withRequests(u, list) ==
    IF list = {}
    THEN [u EXCEPT !.requests = {}, !.hidden = FALSE, !.selected = None,
                   !.focus = IF @ \in {"requests", "requestDetail"} THEN "tree" ELSE @]
    ELSE IF u.selected \in list THEN [u EXCEPT !.requests = list]
    ELSE [u EXCEPT !.requests = list, !.selected = Max(list), !.focus = LeaveDetail(@)]

Apply(t) ==
    /\ slot[t].pc = "answered"
    /\ applyTranscripts(slot[t].slice)
    /\ ui' = withRequests(ui, slot[t].requests)
    /\ slot' = [slot EXCEPT ![t] = Idle]
    /\ UNCHANGED <<requests, stimuli>>
-----------------------------------------------------------------------------
(* The requests table: rows come and go by other hands. *)
Lands ==
    /\ Stimulus
    /\ requests.landed < MaxRequests
    /\ requests' = [landed |-> requests.landed + 1,
                    pending |-> requests.pending \cup {requests.landed + 1}]
    /\ UNCHANGED <<transcript, slot, ui>>

Handled(r) ==
    /\ Stimulus
    /\ r \in requests.pending /\ requests' = [requests EXCEPT !.pending = @ \ {r}]
    /\ UNCHANGED <<transcript, slot, ui>>
-----------------------------------------------------------------------------
(* Keys and clicks.  What a key means depends on the focus; in the panel    *)
(* and the detail view, a key they do not bind has its meaning elsewhere.   *)
ChatKeys == [escape |-> "blurChat"]
DetailKeys == [a |-> "acceptRequest", d |-> "declineRequest", escape |-> "closeRequestDetail"]
RequestKeys == [h |-> "hideRequests", escape |-> "hideRequests", return |-> "openRequestDetail",
                up |-> "requestUp", down |-> "requestDown", tab |-> "blurRequests"]
GlobalKeys == [slash |-> "focusChat", up |-> "treeUp", down |-> "treeDown",
               return |-> "openSelected", tab |-> "cyclePane", R |-> "toggleRequestsHidden"]

\* the keys of a view before those of the screen
Before(f, g) == [key \in DOMAIN f \cup DOMAIN g |-> IF key \in DOMAIN f THEN f[key] ELSE g[key]]

Bound(focus) ==
    CASE focus = "chat" -> ChatKeys
      [] focus = "requestDetail" -> Before(DetailKeys, GlobalKeys)
      [] focus = "requests" -> Before(RequestKeys, GlobalKeys)
      [] OTHER -> GlobalKeys

\* the selection one row up (to a newer request) or down, if there is one
Neighbour(u, action) ==
    LET others == {r \in u.requests : IF action = "requestUp" THEN r > u.selected ELSE r < u.selected}
    IN IF others = {} THEN u.selected
       ELSE IF action = "requestUp" THEN Min(others) ELSE Max(others)

OpenDetail(u, r) == [u EXCEPT !.selected = r, !.focus = "requestDetail", !.opened = r]

applyAction(u, action) ==
    CASE action = "focusChat" -> [u EXCEPT !.focus = "chat"]
      [] action \in {"blurChat", "blurRequests", "treeUp", "treeDown"} -> [u EXCEPT !.focus = "tree"]
      [] action \in {"openSelected", "cyclePane"} -> [u EXCEPT !.focus = "pane"]
      [] action = "toggleRequestsHidden" ->
            [u EXCEPT !.hidden = ~@, !.focus = IF ~u.hidden /\ @ = "requests" THEN "tree" ELSE @]
      [] action = "openRequestDetail" -> IF u.selected = None THEN u ELSE OpenDetail(u, u.selected)
      [] action = "closeRequestDetail" -> [u EXCEPT !.focus = IF u.hidden THEN "tree" ELSE "requests"]
      [] action \in {"acceptRequest", "declineRequest"} -> [u EXCEPT !.focus = "requests"]
      [] action = "hideRequests" -> [u EXCEPT !.hidden = TRUE, !.focus = "tree"]
      [] action \in {"requestUp", "requestDown"} -> [u EXCEPT !.selected = Neighbour(u, action)]

Press(key) ==
    /\ Stimulus
    /\ key \in DOMAIN Bound(ui.focus)
    /\ ui' = applyAction(ui, Bound(ui.focus)[key])
    /\ UNCHANGED <<transcript, slot, requests>>

\* what a click on anything but a request gives the focus to
ClickFocus == [team |-> "tree", pane |-> "pane", chat |-> "chat"]

Click(target) ==
    /\ Stimulus
    /\ ui.focus = "requestDetail" => target # "pane"
    /\ ui' = [ui EXCEPT !.focus = ClickFocus[target]]
    /\ UNCHANGED <<transcript, slot, requests>>

\* The detail view replaces the panel; a request that does not fit opens in it.
requestsPanelShown == ui.requests # {} /\ ~ui.hidden /\ ui.focus # "requestDetail"

ClickRequest(r, fits) ==
    /\ Stimulus
    /\ requestsPanelShown /\ r \in ui.requests
    /\ ui' = IF fits THEN [ui EXCEPT !.focus = "requests", !.selected = r] ELSE OpenDetail(ui, r)
    /\ UNCHANGED <<transcript, slot, requests>>

TuiStep ==
    \/ \E t \in Ticks : Tick(t) \/ tuiSnapshot(t) \/ Fails(t) \/ Apply(t)
    \/ \E r \in Requests : Handled(r) \/ \E fits \in BOOLEAN : ClickRequest(r, fits)
    \/ Lands
    \/ \E key \in DOMAIN GlobalKeys \cup DOMAIN DetailKeys \cup DOMAIN RequestKeys : Press(key)
    \/ \E target \in DOMAIN ClickFocus : Click(target)
-----------------------------------------------------------------------------
(* A pane keeps what it has seen and says what it has not: its lines are in *)
(* order and none is there twice, every row up to the cursor is shown or is *)
(* among those a gap line counts, no prose is cut in two by the moment a    *)
(* snapshot was taken, and only unsettled prose is provisional (the header  *)
(* of transcriptSince and of applyTranscripts).                            *)
TranscriptWhole ==
    LET shown == transcript.shown
        ShownRow(row) == \E n \in DOMAIN shown : row \in shown[n][1]..shown[n][2]
    IN /\ \A n \in DOMAIN shown \ {1} : shown[n - 1][2] < shown[n][1]
       /\ \A row \in 1..transcript.cursor : ShownRow(row) \/ row \in transcript.announced
       /\ \A n \in DOMAIN shown \ {1} :
             ~(shown[n - 1][2] + 1 = shown[n][1] /\ IsDelta(shown[n - 1][2]) /\ IsDelta(shown[n][1]))
       /\ \A row \in transcript.provisional : IsDelta(row) /\ row > transcript.cursor /\ ~ShownRow(row)

(* The request on which an open detail view decides is the one that was     *)
(* opened, and one the UI still lists, however refreshes come in between   *)
(* (the comment on withRequests in tui/state.js).                          *)
DecidesTheOpened ==
    ui.focus = "requestDetail" => ui.selected = ui.opened /\ ui.selected \in ui.requests
=============================================================================
