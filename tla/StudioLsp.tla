------------------------------ MODULE StudioLsp ------------------------------
(***************************************************************************)
(* NPRT Studio with the nprt-lsp process it starts: MainWindow.cpp and     *)
(* EditorWidget.cpp above LspClient.cpp, two pipes, and the message loop   *)
(* of LspServer at the other end.  The client keeps no table of requests:  *)
(* a reply is told by its shape alone.                                     *)
(***************************************************************************)
EXTENDS LspServer

CONSTANTS Doc,          \* current_document_uri_
          InitialText,  \* what the constructor puts into the editor
          TextMode,     \* whether the server's stdout writes \r\n for \n
          MaxEdits,     \* bound: edits of the user
          MaxAsks       \* bound: requests of the user

ASSUME StudioAssumption ==
  /\ Doc \in Sources /\ InitialText \in Texts
  /\ TextMode \in BOOLEAN
  /\ MaxEdits \in Nat /\ MaxAsks \in Nat

\* The instance of the server's model covers what Studio sends.
ASSUME StudioSendsAssumption ==
  /\ {"initialize", "didOpen", "didChange", "completion", "definition"} \subseteq Methods
  /\ 1 .. MaxAsks + 1 \subseteq Ids
  /\ \A t \in Texts : DOMAIN t \subseteq Lines

VARIABLES
  client,     \* how LspClient::start ended; running_ is client = "connected"
  typed,      \* what the editor widget holds
  toServer,   \* messages written to the server and not yet read by it
  toClient,   \* pieces of frames in the pipe from the server
  buffer,     \* read_buffer_
  view,       \* what the window shows of the server's messages
  requestId,  \* next_id_
  edits, asks,  \* how much of the bounds is used
  asked,      \* history: the requests with no reply yet, oldest first
  replied     \* history: the last reply delivered, with the request it met

studioVars == <<client, typed, toServer, toClient, buffer, view, requestId,
                edits, asks, asked, replied>>
allVars == <<vars, studioVars>>

NoReply == [request |-> [method |-> "none"], result |-> Null]

\* The verdict last shown, the problem list without order and repetitions,
\* the completion panel and the line of the cursor.
BlankView == [verdict |-> "none", problems |-> {}, completions |-> {},
              panel |-> FALSE, cursor |-> 0]

StudioInit ==
  /\ Init
  /\ client = "starting"
  /\ typed = <<>>
  /\ toServer = <<>> /\ toClient = <<>> /\ buffer = <<>>
  /\ view = BlankView
  /\ requestId = 1
  /\ edits = 0 /\ asks = 0
  /\ asked = <<>> /\ replied = NoReply

-----------------------------------------------------------------------------
(* Sending.                                                                *)

\* Mutant: a message overtakes the ones before it.
SendFirst(messages) == toServer' = messages \o toServer

\* sendMessage writes a frame; what is written to a process that died is lost.
Send(messages) ==
  toServer' = IF running THEN toServer \o messages ELSE toServer

DidChange(t) == [method |-> "didChange", uri |-> Doc, text |-> t]

\* The constructor starts the server, introduces itself and opens the document.
Start ==
  /\ client = "starting"
  /\ client' = "connected"
  /\ typed' = InitialText
  /\ Send(<<[method |-> "initialize", id |-> requestId],
            [method |-> "didOpen", uri |-> Doc, text |-> InitialText]>>)
  /\ requestId' = requestId + 1
  /\ asked' = <<[method |-> "initialize", text |-> InitialText]>>
  /\ UNCHANGED <<vars, toClient, buffer, view, edits, asks, replied>>

\* waitForStarted gives up: the editor stays, empty and without a text callback.
StartFails ==
  /\ client = "starting"
  /\ client' = "failed"
  /\ UNCHANGED <<vars, typed, toServer, toClient, buffer, view, requestId,
                 edits, asks, asked, replied>>

\* Every change of the text is sent whole; nobody looks at the result.
ChangeText(t) ==
  /\ client # "starting"
  /\ edits < MaxEdits
  /\ edits' = edits + 1
  /\ typed' = t
  /\ IF client = "connected" THEN Send(<<DidChange(t)>>) ELSE UNCHANGED toServer
  /\ UNCHANGED <<vars, client, toClient, buffer, requestId, asks, asked, replied>>

Edit == \E t \in Texts : ChangeText(t) /\ view' = view

\* Activating an item of the completion panel inserts it and hides the panel.
AcceptCompletion ==
  /\ view.panel
  /\ \E t \in Texts : ChangeText(t)
  /\ view' = [view EXCEPT !.panel = FALSE]

\* A request for the identifier the cursor is on.  A write that fails is
\* listed as a problem; to a dead process it may fail or seem to succeed.
Ask ==
  /\ client # "starting"
  /\ asks < MaxAsks
  /\ asks' = asks + 1
  /\ \E method \in {"completion", "definition"}, line \in DOMAIN typed :
     \E name \in Range(typed[line].words) :
       \/ /\ client = "connected"
          /\ Send(<<[method |-> method, id |-> requestId, uri |-> Doc,
                     line |-> line, name |-> name]>>)
          /\ requestId' = requestId + 1
          /\ asked' = Append(asked, [method |-> method, text |-> typed, name |-> name])
          /\ view' = view
       \/ /\ client = "failed" \/ ~running
          /\ view' = [view EXCEPT !.problems = @ \cup {method}]
          /\ requestId' = IF client = "failed" THEN requestId ELSE requestId + 1
          /\ UNCHANGED <<toServer, asked>>
  /\ UNCHANGED <<vars, client, typed, toClient, buffer, edits, replied>>

-----------------------------------------------------------------------------
(* The server's end.                                                       *)

\* How the header of a frame ends in the pipe.  A stream in text mode, as stdout
\* is on Windows until somebody changes it, writes \r\r\n\r\r\n for \r\n\r\n.
HeaderPart == IF TextMode THEN "garbled" ELSE "header"

\* write_lsp_message: a header and a body, which has no line end.
Frame(message) ==
  IF message = Silence THEN <<>>
  ELSE << [part |-> HeaderPart, message |-> message],
          [part |-> "body", message |-> message] >>

\* One turn of the server's loop.
ServerTurn ==
  /\ toServer # <<>>
  /\ Handle(Head(toServer))
  /\ toServer' = Tail(toServer)
  /\ toClient' = toClient \o Frame(sent')
  /\ UNCHANGED <<client, typed, buffer, view, requestId, edits, asks, asked, replied>>

\* The server dies between two turns.  The client has no handler for that:
\* running_ stays as it is.
Crash ==
  /\ client = "connected" /\ running
  /\ running' = FALSE
  /\ toServer' = <<>>
  /\ UNCHANGED <<indexVars, docs, diagSlot, semCache, preview, nextId, request,
                 sent, historyVars, client, typed, toClient, buffer, view,
                 requestId, edits, asks, asked, replied>>

-----------------------------------------------------------------------------
(* Receiving.                                                              *)

\* Mutant: one message per signal.
CompleteOne(pieces) ==
  IF Len(pieces) >= 2 /\ pieces[1].part = "header" THEN 1 ELSE 0

\* nextMessage, called until it returns nothing: how many whole frames with an
\* empty line behind the header the buffer starts with.
Complete(pieces) ==
  Max({k \in 0 .. Len(pieces) \div 2 :
         \A j \in 1 .. k : /\ pieces[2 * j - 1].part = "header"
                           /\ pieces[2 * j].part = "body"})

\* Mutant: the buffer is cleared, not cut.
LeftoverNothing(pieces, k) == <<>>

\* What the buffer keeps once k frames were taken from it.
Leftover(pieces, k) == SubSeq(pieces, 2 * k + 1, Len(pieces))

\* onStdoutReady, for one message: diagnostics are appended to the problems
\* and replies dispatched on the shape of their result.
Shown(v, message) ==
  IF message.type = "publish"
  THEN [v EXCEPT !.verdict = IF message.error THEN "error" ELSE "clear",
                 !.problems = IF message.error THEN @ \cup {message.uri} ELSE @]
  ELSE IF message.result.kind = "labels"
  THEN [v EXCEPT !.completions = message.result.names,
                 !.panel = message.result.names # {}]
  ELSE IF message.result.kind = "location" /\ message.result.uri = Doc
  THEN [v EXCEPT !.cursor = message.result.line]
  ELSE v

\* A part of what is in the pipe is read, and every whole message handled.
StdoutReady ==
  \E n \in 1 .. Len(toClient) :
    LET got      == buffer \o SubSeq(toClient, 1, n)
        count    == Complete(got)
        messages == [j \in 1 .. count |-> got[2 * j].message]
        replies  == Only(messages, {m \in Range(messages) : m.type = "response"})
        met      == Len(replies)
    IN /\ toClient' = SubSeq(toClient, n + 1, Len(toClient))
       /\ buffer' = Leftover(got, count)
       /\ view' = FoldLeft(Shown, view, messages)
       /\ asked' = SubSeq(asked, met + 1, Len(asked))
       /\ replied' = IF met = 0 \/ met > Len(asked) THEN replied
                     ELSE [request |-> asked[met], result |-> replies[met].result]
       /\ UNCHANGED <<vars, client, typed, toServer, requestId, edits, asks>>

StudioNext ==
  \/ Start \/ StartFails \/ Edit \/ AcceptCompletion \/ Ask
  \/ ServerTurn \/ Crash \/ StdoutReady

\* The server reads whenever there is something to read, and the event loop of
\* Studio delivers the signal for what is in the pipe.
StudioFairness == WF_allVars(ServerTurn) /\ WF_allVars(StdoutReady)

StudioSpec == StudioInit /\ [][StudioNext]_allVars /\ StudioFairness

-----------------------------------------------------------------------------
(* Properties.                                                             *)

\* What the reply to a request is, told by the shape the client goes by; a jump
\* goes to a line that declares the name in the text the user asked about.
Meets(asker, result) ==
  /\ asker.method = "initialize" => result = Info
  /\ asker.method = "completion" => result.kind = "labels"
  /\ asker.method = "definition"
       => \/ result = Null
          \/ /\ result.kind = "location"
             /\ result.line \in DOMAIN asker.text
             /\ Declares(asker.text[result.line])
             /\ asker.text[result.line].name = asker.name

\* Every reply meets the oldest request without one, although nothing but the
\* order of the pipes ties them, and whatever was typed meanwhile.
RepliesMeetTheirRequests == Meets(replied.request, replied.result)

Asking(m) == m.method \in {"initialize", "completion", "definition"}
Answering(p) == p.part = "body" /\ p.message.type = "response"

\* While the server lives, a request without a reply is in the one pipe or its
\* reply in the other: the pieces of frames never get mixed up or lost.
RequestsAreOnTheirWay ==
  running =>
    Len(asked) =
      Len(Only(toServer, {m \in Range(toServer) : Asking(m)}))
      + Len(Only(buffer \o toClient, {p \in Range(buffer \o toClient) : Answering(p)}))

\* With the pipes drained, the server holds the text of the editor as it
\* receives texts, and the verdict displayed is the one on that text, if the
\* server's stdout leaves line ends alone.
Drained == client = "connected" /\ running /\ toServer = <<>> /\ toClient = <<>>
DrainedMeansSynced ==
  Drained => /\ Known(Doc) /\ Text(Doc) = Received(typed)
             /\ ~TextMode => /\ asked = <<>> /\ buffer = <<>>
                             /\ view.verdict = Verdict(Received(typed))

\* When the user stops typing and asking, and the server does not die, the
\* window settles: all is answered and the verdict on the text is displayed,
\* if the server's stdout leaves line ends alone.
Settles ==
  <>[](~TextMode /\ client = "connected" /\ running =>
         Drained /\ asked = <<>> /\ view.verdict = Verdict(Received(typed)))

\* What the release standard asks of Studio's path to the server, whatever
\* stream the server writes to: that its diagnostics are displayed.
VerdictIsDisplayed == Drained => view.verdict = Verdict(Received(typed))
=============================================================================
