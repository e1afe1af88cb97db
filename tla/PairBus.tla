-------------------------------- MODULE PairBus --------------------------------
(***************************************************************************)
(* The local socket bus of the pairs runtime: clients connect to a server, *)
(* which passes each message on to every other client.  A message is a     *)
(* frame, its length and then its text, on a stream that arrives in pieces *)
(* of any size, so that each end keeps what is left of one piece for the   *)
(* next.  The streams are those of the socket library.                     *)
(***************************************************************************)
EXTENDS Naturals, Sequences, FiniteSets

CONSTANTS
  Clients,
  MaxMessages   \* bound: of each client, the messages it publishes

VARIABLES
  status,    \* of each client: "new", "open", "ending", "closed"
  published, \* number of messages each client has published
  up, down,  \* the stream of each client to the server, and back
  kept,      \* what the server's reader keeps of each client
  buffer,    \* what each client's reader keeps
  received,  \* what each client was given
  emitted,   \* history: the messages the server has taken, in order
  since      \* history: Len(emitted) when a client was accepted

bvars == <<status, published, up, down, kept, buffer, received, emitted, since>>

Init ==
  /\ status = [c \in Clients |-> "new"] /\ published = [c \in Clients |-> 0]
  /\ up = [c \in Clients |-> <<>>] /\ down = [c \in Clients |-> <<>>]
  /\ kept = [c \in Clients |-> <<>>] /\ buffer = [c \in Clients |-> <<>>]
  /\ received = [c \in Clients |-> <<>>] /\ emitted = <<>> /\ since = [c \in Clients |-> 0]

\* writeFrame, of each message: the length, and the text
Frames(ms) ==
  [i \in 1 .. 2 * Len(ms) |-> [part |-> IF i % 2 = 1 THEN "length" ELSE "text", of |-> ms[(i + 1) \div 2]]]

\* frameReader: whole frames are taken off the front of what is there.
Whole(b)     == Len(b) \div 2
Messages(b)  == [i \in 1..Whole(b) |-> b[2 * i].of]
RestEmpty(b) == IF Whole(b) = 0 THEN b ELSE <<>>   \* mutant: a message empties the buffer
Rest(b)      == SubSeq(b, 2 * Whole(b) + 1, Len(b))

Connect(c) ==
  /\ status[c] = "new" /\ status' = [status EXCEPT ![c] = "open"]
  /\ since' = [since EXCEPT ![c] = Len(emitted)]
  /\ UNCHANGED <<published, up, down, kept, buffer, received, emitted>>

Publish(c) ==
  /\ status[c] = "open" /\ published[c] < MaxMessages[c]
  /\ published' = [published EXCEPT ![c] = @ + 1]
  /\ up' = [up EXCEPT ![c] = @ \o Frames(<< <<c, published[c] + 1>> >>)]
  /\ UNCHANGED <<status, down, kept, buffer, received, emitted, since>>

\* The server gets a piece of a client's stream, and passes on what it completes.
ServerReads(c, n) ==
  /\ n \in 1..Len(up[c])
  /\ LET b == kept[c] \o SubSeq(up[c], 1, n)
         Others(d) == d # c /\ status[d] \in {"open", "ending"}
     IN /\ kept' = [kept EXCEPT ![c] = Rest(b)]
        /\ emitted' = emitted \o Messages(b)
        /\ down' = [d \in Clients |->
                      IF Others(d) THEN down[d] \o Frames(Messages(b)) ELSE down[d]]
  /\ up' = [up EXCEPT ![c] = SubSeq(@, n + 1, Len(@))]
  /\ UNCHANGED <<status, published, buffer, received, since>>

ClientReads(c, n) ==
  /\ status[c] \in {"open", "ending"} /\ n \in 1..Len(down[c])
  /\ LET b == buffer[c] \o SubSeq(down[c], 1, n)
     IN /\ buffer' = [buffer EXCEPT ![c] = Rest(b)]
        /\ received' = [received EXCEPT ![c] = @ \o Messages(b)]
  /\ down' = [down EXCEPT ![c] = SubSeq(@, n + 1, Len(@))]
  /\ UNCHANGED <<status, published, up, kept, emitted, since>>

\* disconnect ends the client's stream once it is flushed; the server closes it then.
Disconnect(c) ==
  /\ status[c] = "open" /\ status' = [status EXCEPT ![c] = "ending"]
  /\ UNCHANGED <<published, up, down, kept, buffer, received, emitted, since>>

Closed(c) ==
  /\ status[c] = "ending" /\ up[c] = <<>> /\ status' = [status EXCEPT ![c] = "closed"]
  /\ UNCHANGED <<published, up, down, kept, buffer, received, emitted, since>>

Next ==
  \E c \in Clients :
    \/ Connect(c) \/ Publish(c) \/ Disconnect(c) \/ Closed(c)
    \/ \E n \in 1..Len(up[c]) : ServerReads(c, n)
    \/ \E n \in 1..Len(down[c]) : ClientReads(c, n)

Spec == Init /\ [][Next]_bvars

-------------------------------------------------------------------------------
(* Properties *)

TypeOK ==
  /\ status \in [Clients -> {"new", "open", "ending", "closed"}]
  /\ \A c \in Clients : published[c] \in 0..MaxMessages[c]
  /\ \A c \in Clients : Len(kept[c]) < 2 /\ Len(buffer[c]) < 2

\* Of the first n messages that the server took: those that c was to be given, which others
\* published since it was accepted, and those that c published itself
Due(c, n)   == Cardinality({k \in since[c] + 1 .. n : emitted[k][1] # c})
Taken(c, n) == Cardinality({k \in 1 .. n : emitted[k][1] = c})

\* However the streams are cut into pieces, a client is given what the others published
\* since it was accepted, in one order for all, without loss, repetition or its own; and
\* the server takes what each client publishes in order (pair-bus.mjs:14-25, 66-72).
OneOrderForAll ==
  /\ \A c \in Clients :
       /\ Len(received[c]) <= Due(c, Len(emitted))
       /\ \A n \in since[c] + 1 .. Len(emitted) :
            emitted[n][1] # c /\ Due(c, n) <= Len(received[c]) => received[c][Due(c, n)] = emitted[n]
  /\ \A n \in DOMAIN emitted : emitted[n] = <<emitted[n][1], Taken(emitted[n][1], n)>>
===============================================================================
