------------------------------- MODULE Transfer -------------------------------
(***************************************************************************)
(* One letter on its way from send_msg_body() of the client to              *)
(* process_data_recv() of the server, byte by byte: TCP keeps the bytes and *)
(* their order and cuts them into chunks as it likes, and the server looks  *)
(* at one chunk at a time.  ServerProtocol begins with the kind of a chunk; *)
(* here is what kind the bytes get.                                         *)
(***************************************************************************)
EXTENDS Naturals, Sequences, SequencesExt, Functions

CONSTANT Letters  \* texts: sequences of lines, as strtok() cuts them at "\n"

\* "quit" is the word of a command, "x" any other text.
Bytes == {"x", "dot", "quit", "cr", "lf"}
ASSUME LetterAssumption ==
  Letters \subseteq Seq(Seq(Bytes \ {"lf"}) \ {<<>>})

VARIABLES letter,   \* what the client sends, one of Letters
          sent,     \* writes it has made; the last one is the end
          wire,     \* bytes on their way
          state,    \* of the connection, at the server: "expect_data_recv",
                    \* "expect_mail", "disconnected" or "exited"
          body,     \* letter->body
          replies,  \* codes on their way back: "221", "250", "421", "500"
          outcome,  \* what the client makes of them: "", "accepted", "refused",
                    \* or "failed" when the end could not be written
          taken,    \* ghost: what write() took of the text
          short     \* ghost: some write() took less than it was given

client == <<letter, sent, outcome, taken, short>>
vars == <<client, wire, state, body, replies>>

End == <<"cr", "lf", "dot", "cr", "lf">>

Init ==
  /\ letter \in Letters
  /\ sent = 0 /\ wire = <<>>
  /\ state = "expect_data_recv" /\ body = <<>>
  /\ replies = <<>> /\ outcome = ""
  /\ taken = <<>> /\ short = FALSE

Up == state \in {"expect_data_recv", "expect_mail"}

-----------------------------------------------------------------------------
(* The client.                                                              *)

\* send_msg_body(): a write() for each line, without regard to what is in it,
\* and one for the end.
Writes(k) == IF k <= Len(letter) THEN letter[k] \o <<"lf">> ELSE End

\* One call of write(), on a socket that does not block: it takes as much as
\* there is room for, or fails. send_msg_body() does not ask what became of a
\* line; of the end, send_data() takes a part for the whole, and when nothing
\* was written handle_write_socket() closes the connection.
Put(bytes) ==
  /\ wire'  = IF Up THEN wire \o bytes ELSE wire
  /\ taken' = IF Up /\ sent < Len(letter) THEN taken \o bytes ELSE taken

send_msg_body ==
  /\ sent <= Len(letter)
  /\ sent' = sent + 1
  /\ \E n \in 0 .. Len(Writes(sent')) :
       /\ Put(SubSeq(Writes(sent'), 1, n))
       /\ short' = (short \/ n < Len(Writes(sent')))
       /\ outcome' = IF n = 0 /\ sent = Len(letter) THEN "failed" ELSE outcome
  /\ UNCHANGED <<letter, state, body, replies>>

\* The first reply after the body, or the end of the connection.
check_server_code ==
  /\ sent = Len(letter) + 1 /\ outcome = ""
  /\ replies # <<>> \/ ~Up
  /\ outcome' = IF replies # <<>> /\ Head(replies) = "250" THEN "accepted" ELSE "refused"
  /\ replies' = IF replies # <<>> THEN Tail(replies) ELSE replies
  /\ UNCHANGED <<letter, sent, wire, state, body, taken, short>>

-----------------------------------------------------------------------------
(* The server.  "$" of a pattern is the end of a chunk, or before its last  *)
(* "\n"; "[\r\n]?" is one of the two or nothing.                            *)

Tails == {<<>>, <<"cr">>, <<"lf">>, <<"cr", "lf">>, <<"lf", "lf">>}

\* Mutated form of Ends: the last two bytes.
Ends_short(chunk) == IsSuffix(<<"cr", "lf">>, chunk)

\* The comparison of process_data_recv() with "\r\n.\r\n".
Ends(chunk) == IsSuffix(End, chunk)

\* pattern_compute() in the order of pattern_type.
Kind(chunk) ==
  CASE \E t \in Tails : chunk = <<"quit">> \o t -> "QUIT"
    [] \E h \in {<<>>, <<"cr">>, <<"lf">>}, t \in Tails : chunk = h \o <<"dot">> \o t -> "DOT"
    [] Ends(chunk) -> "TEXT_END"
    [] OTHER -> "TEXT"

\* Mutated form of Stored: strcpy() for strcat().
Stored_last(chunk) == chunk \o <<"cr", "lf">>

\* Every chunk becomes a line of its own, the last one with its dot.
Stored(chunk) == body \o chunk \o <<"cr", "lf">>

\* The server in process_data_recv() and process_data_end().
receive(chunk) ==
  /\ state = "expect_data_recv"
  /\ CASE Kind(chunk) = "QUIT" -> /\ state' = "exited"
                                  /\ UNCHANGED <<body, replies>>
       [] Kind(chunk) = "DOT" -> /\ state' = "expect_mail"
                                 /\ replies' = Append(replies, "250")
                                 /\ UNCHANGED body
       [] Kind(chunk) = "TEXT_END" -> /\ state' = "expect_mail"
                                      /\ replies' = Append(replies, "250")
                                      /\ body' = Stored(chunk)
       [] Kind(chunk) = "TEXT" -> /\ body' = Stored(chunk)
                                  /\ UNCHANGED <<state, replies>>

\* What follows the end it found is read as commands.
misread(chunk) ==
  /\ state = "expect_mail"
  /\ CASE Kind(chunk) = "QUIT" -> /\ state' = "disconnected"
                                  /\ replies' = Append(replies, "221")
       [] Kind(chunk) = "DOT" -> state' = "exited" /\ UNCHANGED replies
       [] OTHER -> replies' = Append(replies, "500") /\ UNCHANGED state
  /\ UNCHANGED body

conn_recv ==
  \E n \in 1 .. Len(wire) :
    LET chunk == SubSeq(wire, 1, n) IN
      /\ receive(chunk) \/ misread(chunk)
      /\ wire' = SubSeq(wire, n + 1, Len(wire))
      /\ UNCHANGED client

\* Mutated form of time_out: where smtp.tpl has a TIMEOUT transition.
time_out_of_commands ==
  /\ state = "expect_mail" /\ wire = <<>> /\ outcome = ""
  /\ state' = "disconnected"
  /\ replies' = Append(replies, "421")
  /\ UNCHANGED <<client, wire, body>>

\* CONN_TIMEOUT after the last chunk.
time_out ==
  /\ Up /\ wire = <<>> /\ outcome = ""
  /\ state' = "disconnected"
  /\ replies' = Append(replies, "421")
  /\ UNCHANGED <<client, wire, body>>

-----------------------------------------------------------------------------
Next == send_msg_body \/ check_server_code \/ conn_recv \/ time_out

Spec == Init /\ [][Next]_vars
FairSpec == Spec /\ WF_vars(send_msg_body) /\ WF_vars(check_server_code)
                 /\ WF_vars(conn_recv) /\ WF_vars(time_out)

-----------------------------------------------------------------------------
(* Properties.                                                              *)

\* What is left of s without line breaks and the dots of ends.
Text(s) == FlattenSeq([k \in DOMAIN s |-> IF s[k] \in {"cr", "lf", "dot"} THEN <<>> ELSE <<s[k]>>])
Lines   == FlattenSeq(letter)

\* No dot and no word of a command in the text.
Quiet == \A k \in DOMAIN letter : ToSet(letter[k]) \cap {"dot", "quit"} = {}

\* However TCP cuts it, a letter without dots and commands that the client
\* counts as accepted is stored with all of the text that write() took, and
\* nothing else but line breaks and the dot of the end: no chunk is lost,
\* stored twice, or taken for the end.  It is the whole letter if there was
\* room for every write(); otherwise the rest is lost, and nobody is told:
\* README.md, section 6.
AcceptedIsStored ==
  outcome = "accepted" /\ Quiet =>
    /\ Text(body) = Text(taken)
    /\ ~short => Text(body) = Text(Lines)

\* Of such a letter, at most the last line break is left when the server
\* answers 250 and goes back to commands; so nothing of it is taken for one,
\* whatever the client could not write.
NotCutShort ==
  Quiet /\ state = "expect_mail" => /\ sent = Len(letter) + 1
                                   /\ ToSet(wire) \subseteq {"cr", "lf"}

\* Client and server do not wait for each other for ever: when the end was cut
\* and not seen, the timeout of the server tells the client.
NobodyWaits == <>(outcome # "")
=============================================================================
