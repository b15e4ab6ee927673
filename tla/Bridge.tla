------------------------------- MODULE Bridge -------------------------------
(***************************************************************************)
(* The Art-Net node (artnet/node.go) and the wiring of main.go: which      *)
(* packet of the network becomes which source of the merger, and which     *)
(* merge goes out on which universe.                                       *)
(*                                                                         *)
(* main sets up the mappings while the node's goroutine is already         *)
(* receiving; then the forwarders and the main loop run.  What the merger  *)
(* does between an Update and its output is Merger's matter: here an       *)
(* Update makes the merge of its universe due, and a later step sends it.  *)
(* Packets are told apart by their sender, kind, universe and sequence.    *)
(*                                                                         *)
(* The network is UDP: a datagram can be lost, arrive twice, or be         *)
(* overtaken by a later one; a send can fail.                              *)
(***************************************************************************)
EXTENDS ArtNetCodec, GoChannel

CONSTANTS
  ArtnetUniverse,  \* the universe of local DMX, a setting
  MergeInputs,     \* the pairs of the settings, in their order
  OwnIP,           \* the address the tool's packets are sent from
  LocalIP,         \* Node.localIP: what it believes OwnIP to be
  Consoles,        \* the other Art-Net senders, [ip, universe] each
  SeqBytes,        \* the values of the sequence byte, 256
  ReceivedCap,     \* capacity of ReceivedDmx, 8 in NewNode
  SocketMax        \* bound: the datagrams under way to the socket

Pair == [src : Nat, out : Nat]

ASSUME BridgeAssumption ==
  /\ ArtnetUniverse \in PortAddress
  /\ MergeInputs \in Seq(Pair) /\ MergeInputs # <<>>
  /\ \A c \in Consoles : c.ip # OwnIP /\ c.universe \in PortAddress
  /\ SeqBytes \in Nat /\ SeqBytes > 1
  /\ ReceivedCap \in Nat \ {0} /\ SocketMax \in Nat \ {0}

VARIABLES
  added,           \* how many pairs main has set up
  step,            \* what it does next with the pair after those
  sources,         \* Merger.sources: the output universe of each identifier
  allowed,         \* allowedSources, as a set
  outputUniverses, \* Node.outputUniverses, as a set
  seq,             \* Node.seq
  socket,          \* the datagrams that have arrived at the node
  received,        \* the ReceivedDmx channel
  due              \* the universes whose merge is still to be sent

setupVars == <<added, step, sources, allowed, outputUniverses>>
vars      == <<setupVars, seq, socket, received, due>>

Local      == <<"local">>
ArtNet(u)  == <<"artnet", u>>

----------------------------------------------------------------------------
(* main, before the main loop.                                             *)

Init == /\ added = 0 /\ step = "mapping"
        /\ sources = [id \in {Local} |-> Uint16(ArtnetUniverse)]
        /\ allowed = {}
        /\ outputUniverses = {Uint16(ArtnetUniverse)}
        /\ seq = 0
        /\ socket = <<>> /\ received = <<>>
        /\ due = {}

\* The pair that is being set up.  Node.Run may receive between its steps.
Adding == MergeInputs[added + 1]

\* The identifier's source is replaced if it was mapped before.
AddMapping ==
  /\ added < Len(MergeInputs) /\ step = "mapping"
  /\ step' = "allowed"
  /\ LET new == ArtNet(Adding.src) IN
       sources' = [id \in DOMAIN sources \cup {new} |->
                     IF id = new THEN Uint16(Adding.out) ELSE sources[id]]
  /\ UNCHANGED <<added, allowed, outputUniverses, seq, socket, received, due>>

AllowSource ==
  /\ step = "allowed" /\ step' = "output"
  /\ allowed' = allowed \cup {Uint16(Adding.src)}
  /\ UNCHANGED <<added, sources, outputUniverses, seq, socket, received, due>>

\* Mutant: the mapping is registered with the merger and not with the node.
OutputNotAdded ==
  /\ step = "output" /\ step' = "mapping" /\ added' = added + 1
  /\ UNCHANGED <<sources, allowed, outputUniverses, seq, socket, received, due>>

AddOutputUniverse ==
  /\ step = "output" /\ step' = "mapping" /\ added' = added + 1
  /\ outputUniverses' = outputUniverses \cup {Uint16(Adding.out)}
  /\ UNCHANGED <<sources, allowed, seq, socket, received, due>>

Ready == added = Len(MergeInputs)

----------------------------------------------------------------------------
(* Node.Run.  A datagram is an ArtDmx packet, an ArtPoll, or another.      *)

SeqByte == 0..(SeqBytes - 1)

\* History: since is how many packets the tool has sent after this one of its own,
\* as far as the sequence byte counts.
Datagram == [ip : {OwnIP} \cup {c.ip : c \in Consoles}, kind : {"dmx", "poll", "other"},
             universe : PortAddress, seq : SeqByte, since : SeqByte]

Dmx(ip, u, s) == [ip |-> ip, kind |-> "dmx", universe |-> DecodeUniverse(EncodeUniverse(u)),
                  seq |-> s, since |-> 0]

\* What of a datagram goes to the forwarder.
ReceivedFrame == [ip : {OwnIP} \cup {c.ip : c \in Consoles}, universe : PortAddress]

\* The tool's own packets.
Loopback(d) == d.ip = LocalIP /\ d.universe \in outputUniverses

\* A poll is answered, which changes nothing here; any other packet is ignored.
NodeReceives ==
  /\ socket # <<>>
  /\ socket' = Tail(socket)
  /\ LET d == Head(socket) IN
       received' = IF d.kind = "dmx" /\ ~Loopback(d)
                   THEN TrySend(received, ReceivedCap, [ip |-> d.ip, universe |-> d.universe])
                   ELSE received
  /\ UNCHANGED <<setupVars, seq, due>>

\* Mutant: the byte wraps to zero.
NextSeqWraps == (seq + 1) % SeqBytes

\* The byte wraps past zero.
NextSeq == IF (seq + 1) % SeqBytes = 0 THEN 1 ELSE (seq + 1) % SeqBytes

\* One more packet has been sent after those of the tool that are under way.
Passed(d) == IF d.ip = OwnIP /\ d.since < SeqBytes - 1 THEN [d EXCEPT !.since = @ + 1] ELSE d

OthersPassed == [i \in DOMAIN socket |-> Passed(socket[i])]

\* The main loop receives a merge and sends it; the destination is a broadcast,
\* as it is by default, and the packet comes back, unless the send fails or the
\* packet is lost.
SendDmxUniverse(u) ==
  /\ Ready /\ u \in due
  /\ due' = due \ {u}
  /\ seq' = NextSeq
  /\ \/ /\ Len(socket) < SocketMax
        /\ socket' = Append(OthersPassed, Dmx(OwnIP, u, seq'))
     \/ socket' = OthersPassed
  /\ UNCHANGED <<setupVars, received>>

----------------------------------------------------------------------------
(* The forwarders, and the senders around the tool.                        *)

Update(id) == due' = IF id \in DOMAIN sources THEN due \cup {sources[id]} ELSE due

ForwardLocal == /\ Ready
                /\ Update(Local)
                /\ UNCHANGED <<setupVars, seq, socket, received>>

ForwardArtNet == /\ Ready /\ received # <<>>
                 /\ received' = Tail(received)
                 /\ LET u == Head(received).universe IN
                      IF u \in allowed THEN Update(ArtNet(u)) ELSE UNCHANGED due
                 /\ UNCHANGED <<setupVars, seq, socket>>

Arrives(d) == /\ Len(socket) < SocketMax
              /\ socket' = Append(socket, d)
              /\ UNCHANGED <<setupVars, seq, received, due>>

\* A console without sequencing, or one that polls.
ConsoleSends == \E c \in Consoles :
  \/ Arrives(Dmx(c.ip, c.universe, 0))
  \/ \E k \in {"poll", "other"} : Arrives([Dmx(c.ip, 0, 0) EXCEPT !.kind = k])

\* A datagram arrives once more, or is overtaken by the next.
Duplicated == \E i \in DOMAIN socket : Arrives(socket[i])

Overtaken == \E i \in 1..(Len(socket) - 1) :
  /\ socket' = [socket EXCEPT ![i] = socket[i + 1], ![i + 1] = socket[i]]
  /\ UNCHANGED <<setupVars, seq, received, due>>

Next == \/ AddMapping
        \/ AllowSource
        \/ AddOutputUniverse
        \/ NodeReceives
        \/ \E u \in due : SendDmxUniverse(u)
        \/ ForwardLocal
        \/ ForwardArtNet
        \/ ConsoleSends
        \/ Duplicated
        \/ Overtaken

Spec == Init /\ [][Next]_vars
----------------------------------------------------------------------------
(* Properties.                                                             *)

\* Every variable has its type; the channel keeps its capacity.
TypeOK == /\ added \in 0..Len(MergeInputs)
          /\ step \in {"mapping", "allowed", "output"}
          /\ step # "mapping" => added < Len(MergeInputs)
          /\ \A id \in DOMAIN sources : sources[id] \in Word
          /\ allowed \subseteq Word
          /\ outputUniverses \subseteq Word
          /\ seq \in SeqByte
          /\ socket \in Seq(Datagram) /\ Len(socket) <= SocketMax
          /\ received \in Seq(ReceivedFrame) /\ Len(received) <= ReceivedCap
          /\ due \subseteq Word

\* "The tool's own output universes are filtered out by source IP so it never
\* merges with itself" (README.md:201): no packet it has sent comes back to the
\* forwarder, whatever universes feed each other.
NeverMergesItself == \A i \in DOMAIN received : received[i].ip # OwnIP

\* The output of a mapping that the filter has not been told of yet.
BeingAdded == IF step = "mapping" THEN {} ELSE {Uint16(Adding.out)}

\* Why: the filter knows whatever a mapping can feed, but for the pair that is
\* just being set up: the merger is told of its output two steps before the node,
\* which is receiving already.  Nothing is due or sent that the filter does not
\* know, even so.  With the types, this is inductive.
OwnUniversesKnown ==
  /\ outputUniverses \subseteq PortAddress
  /\ \A id \in DOMAIN sources : sources[id] \in outputUniverses \cup BeingAdded
  /\ due \subseteq outputUniverses
  /\ \A i \in DOMAIN socket :
       socket[i].ip = OwnIP => socket[i].universe \in outputUniverses
  /\ NeverMergesItself

\* "The sequence field increments per packet and wraps" past zero, which stands
\* for no sequencing (README.md:192): the tool's packets that are under way, over
\* all universes and in whatever order they have come to be, are told apart by
\* their sequence, as long as they are among as many as the byte can count.
SequenceTellsApart ==
  LET own == {i \in DOMAIN socket : socket[i].ip = OwnIP}
      recent == {i \in own : socket[i].since < SeqBytes - 1}
  IN  /\ \A i \in own : socket[i].seq # 0
      /\ \A i, j \in recent :
           socket[i].since # socket[j].since => socket[i].seq # socket[j].seq
=============================================================================
