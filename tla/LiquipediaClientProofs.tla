------------------------ MODULE LiquipediaClientProofs ------------------------
(***************************************************************************)
(* Proofs about LiquipediaClient, for any numbers of requests, portals,      *)
(* proxies and retries.                                                     *)
(*                                                                         *)
(* Three effects on the chains are all there is: a call enters, the calls of *)
(* a request settle, or only the row of a request moves on.  Each has a      *)
(* lemma about the places in the chains; the theorems then follow by cases   *)
(* on the actions.                                                          *)
(***************************************************************************)
EXTENDS LiquipediaClient, TLAPS

Rows == [Requests -> RequestState]
Chains == [Channels -> Seq(Requests \X Nat)]

\* Everything but the sleeps: what the places of calls look like.
PlacesInv == TypeOK /\ PendingHasCall /\ ExecutingIsFirst

\* Cache keys and portal slugs name channels.
LEMMA KeysAreChannels == Keys \subseteq Channels /\ Slugs \subseteq Channels
BY DEF Keys, Channels

\* A depth is a number, and the channels of the calls up to it are channels.
LEMMA HeldType ==
    ASSUME Types, NEW q \in Requests
    PROVE  /\ request[q] \in RequestState
           /\ request[q].held \in Seq(Channels)
           /\ Depth(q) \in Nat
           /\ \A i \in 1..Depth(q) : request[q].held[i] \in Channels
BY DEF Types, RequestState, Depth

\* What entering a channel changes, place by place.
LEMMA EnterEffect ==
    ASSUME Types, NEW q \in Requests, NEW key \in Channels, Enter(q, key)
    PROVE  /\ request' \in Rows /\ chain' \in Chains
           /\ request'[q].pc = "queued" /\ Depth(q)' = Depth(q) + 1
           /\ \A i \in 1..Depth(q) : request'[q].held[i] = request[q].held[i]
           /\ request'[q].held[Depth(q) + 1] = key
           /\ \A r \in Requests \ {q} : request'[r] = request[r]
           /\ \A ch \in Channels \ {key} : chain'[ch] = chain[ch]
           /\ Len(chain'[key]) = Len(chain[key]) + 1
           /\ \A k \in 1..Len(chain[key]) : chain'[key][k] = chain[key][k]
           /\ chain'[key][Len(chain[key]) + 1] = <<q, Depth(q) + 1>>
<1>1. request[q] \in RequestState /\ request[q].held \in Seq(Channels) /\ Depth(q) \in Nat
  BY HeldType
<1>2. chain[key] \in Seq(Requests \X Nat)
  BY DEF Types
<1>3. <<q, Depth(q) + 1>> \in Requests \X Nat
  BY <1>1
<1>4. /\ chain'[key] = Append(chain[key], <<q, Depth(q) + 1>>)
      /\ \A ch \in Channels \ {key} : chain'[ch] = chain[ch]
  BY DEF Enter, Types
<1>5. chain' \in Chains
  <2>1. Append(chain[key], <<q, Depth(q) + 1>>) \in Seq(Requests \X Nat)
    BY <1>2, <1>3
  <2> QED
    BY <2>1 DEF Enter, Types, Chains
<1>6. /\ Len(chain'[key]) = Len(chain[key]) + 1
      /\ \A k \in 1..Len(chain[key]) : chain'[key][k] = chain[key][k]
      /\ chain'[key][Len(chain[key]) + 1] = <<q, Depth(q) + 1>>
  BY <1>2, <1>3, <1>4
<1>7. /\ request'[q] = [request[q] EXCEPT !.pc = "queued", !.held = Append(@, key)]
      /\ \A r \in Requests \ {q} : request'[r] = request[r]
  BY DEF Enter, Types
<1>8. Append(request[q].held, key) \in Seq(Channels)
  BY <1>1
<1>9. request'[q] \in RequestState
  BY <1>1, <1>7, <1>8 DEF RequestState, Steps
<1>10. request' \in Rows
  BY <1>9 DEF Enter, Types, Rows
<1>11. request'[q].pc = "queued" /\ request'[q].held = Append(request[q].held, key)
  BY <1>1, <1>7 DEF RequestState
<1>12. /\ Len(request'[q].held) = Len(request[q].held) + 1
       /\ \A i \in 1..Len(request[q].held) : request'[q].held[i] = request[q].held[i]
       /\ request'[q].held[Len(request[q].held) + 1] = key
  BY <1>1, <1>11
<1> QED
  BY <1>4, <1>5, <1>6, <1>7, <1>10, <1>11, <1>12 DEF Depth

\* What settling changes: the first place of every channel the request holds is gone.
LEMMA SettleEffect ==
    ASSUME Types, NEW q \in Requests, NEW outcome \in Ended, Settle(q, outcome),
           \A i \in 1..Depth(q) : Len(chain[request[q].held[i]]) > 0
    PROVE  /\ request' \in Rows /\ chain' \in Chains
           /\ request'[q].pc = outcome /\ Depth(q)' = 0
           /\ \A r \in Requests \ {q} : request'[r] = request[r]
           /\ \A ch \in Channels :
                 (\E i \in 1..Depth(q) : request[q].held[i] = ch) =>
                     /\ Len(chain'[ch]) = Len(chain[ch]) - 1
                     /\ \A k \in 1..(Len(chain[ch]) - 1) : chain'[ch][k] = chain[ch][k + 1]
           /\ \A ch \in Channels :
                 ~(\E i \in 1..Depth(q) : request[q].held[i] = ch) => chain'[ch] = chain[ch]
<1> DEFINE Holds(ch) == \E i \in 1..Depth(q) : request[q].held[i] = ch
<1>1. request[q] \in RequestState /\ request[q].held \in Seq(Channels) /\ Depth(q) \in Nat
  BY HeldType
<1>2. \A ch \in Channels : chain'[ch] = IF Holds(ch) THEN Tail(chain[ch]) ELSE chain[ch]
  BY DEF Settle
<1>3. ASSUME NEW ch \in Channels, Holds(ch)
      PROVE  /\ Tail(chain[ch]) \in Seq(Requests \X Nat)
             /\ Len(Tail(chain[ch])) = Len(chain[ch]) - 1
             /\ \A k \in 1..(Len(chain[ch]) - 1) : Tail(chain[ch])[k] = chain[ch][k + 1]
  <2>1. chain[ch] \in Seq(Requests \X Nat) /\ Len(chain[ch]) > 0
    BY <1>3 DEF Types
  <2> QED
    BY <2>1
<1>4. chain' \in Chains
  <2>1. ASSUME NEW ch \in Channels
        PROVE  (IF Holds(ch) THEN Tail(chain[ch]) ELSE chain[ch]) \in Seq(Requests \X Nat)
    <3>1. CASE Holds(ch)
      BY <3>1, <1>3
    <3>2. CASE ~Holds(ch)
      BY <3>2 DEF Types
    <3> QED
      BY <3>1, <3>2
  <2>2. chain' = [ch \in Channels |-> IF Holds(ch) THEN Tail(chain[ch]) ELSE chain[ch]]
    BY DEF Settle
  <2> QED
    BY <2>1, <2>2 DEF Chains
<1>5. /\ request'[q] = [request[q] EXCEPT !.pc = outcome, !.held = <<>>]
      /\ \A r \in Requests \ {q} : request'[r] = request[r]
  BY DEF Settle, Types
<1>6. request'[q] \in RequestState
  <2>1. <<>> \in Seq(Channels) /\ outcome \in Steps
    BY DEF Steps
  <2> QED
    BY <1>1, <1>5, <2>1 DEF RequestState
<1>7. request'[q].pc = outcome /\ request'[q].held = <<>>
  BY <1>1, <1>5 DEF RequestState
<1>8. request' \in Rows
  BY <1>6 DEF Settle, Types, Rows
<1>9. Depth(q)' = 0
  BY <1>7 DEF Depth
<1>10. ASSUME NEW ch \in Channels, Holds(ch)
       PROVE  /\ Len(chain'[ch]) = Len(chain[ch]) - 1
              /\ \A k \in 1..(Len(chain[ch]) - 1) : chain'[ch][k] = chain[ch][k + 1]
  <2>1. chain'[ch] = Tail(chain[ch])
    BY <1>2, <1>10
  <2> QED
    BY <2>1, <1>3, <1>10
<1>11. ASSUME NEW ch \in Channels, ~Holds(ch)
       PROVE  chain'[ch] = chain[ch]
  BY <1>2, <1>11
<1> QED
  BY <1>4, <1>5, <1>7, <1>8, <1>9, <1>10, <1>11

-----------------------------------------------------------------------------
(* The places in the chains.                                               *)

\* A chain is a sequence, and the chain a pending call is in is not empty.
LEMMA ChainType ==
    ASSUME Types, NEW ch \in Channels
    PROVE  /\ chain[ch] \in Seq(Requests \X Nat)
           /\ Len(chain[ch]) \in Nat /\ DOMAIN chain[ch] = 1..Len(chain[ch])
BY DEF Types

\* A channel whose chain holds a call at some place has a nonempty chain.
LEMMA NotEmpty ==
    ASSUME PlacesInv, NEW q \in Requests, NEW i \in 1..Depth(q)
    PROVE  /\ request[q].held[i] \in Channels
           /\ 1 \in 1..Len(chain[request[q].held[i]])
<1>1. request[q].held[i] \in Channels
  BY HeldType DEF PlacesInv, TypeOK
<1>2. PICK k \in DOMAIN chain[request[q].held[i]] : chain[request[q].held[i]][k] = <<q, i>>
  BY DEF PlacesInv, TypeOK, PlacesKept
<1> QED
  BY <1>1, <1>2, ChainType DEF PlacesInv, TypeOK

\* A request that is inside a call holds at least one place.
LEMMA HeldNotEmpty ==
    ASSUME PlacesInv, NEW q \in Requests
    PROVE  \A i \in 1..Depth(q) : Len(chain[request[q].held[i]]) > 0
<1> SUFFICES ASSUME NEW i \in 1..Depth(q) PROVE Len(chain[request[q].held[i]]) > 0
  OBVIOUS
<1>1. request[q].held[i] \in Channels /\ 1 \in 1..Len(chain[request[q].held[i]])
  BY NotEmpty
<1> QED
  BY <1>1, ChainType DEF PlacesInv, TypeOK

\* Who executes, or may begin, is the first on every channel it holds.
LEMMA FirstEverywhere ==
    ASSUME PlacesInv, NEW q \in Requests, Busy(q) \/ HasTurn(q)
    PROVE  \A i \in 1..Depth(q) : chain[request[q].held[i]][1] = <<q, i>>
<1> SUFFICES ASSUME NEW i \in 1..Depth(q)
             PROVE  chain[request[q].held[i]][1] = <<q, i>>
  OBVIOUS
<1>1. Depth(q) \in Nat
  BY HeldType DEF PlacesInv, TypeOK
<1>2. CASE i < Depth(q) \/ Busy(q)
  BY <1>2 DEF PlacesInv, ExecutingIsFirst, Executing
<1>3. CASE i = Depth(q) /\ HasTurn(q)
  <2>1. Head(chain[request[q].held[i]]) = <<q, i>>
    BY <1>3 DEF HasTurn, Channel
  <2>2. chain[request[q].held[i]] \in Seq(Requests \X Nat) /\ chain[request[q].held[i]] # <<>>
    BY NotEmpty, ChainType DEF PlacesInv, TypeOK
  <2> QED
    BY <2>1, <2>2
<1> QED
  BY <1>1, <1>2, <1>3

\* Two of those are never on the same channel.
LEMMA Alone ==
    ASSUME PlacesInv, NEW q \in Requests, NEW r \in Requests, q # r,
           Busy(q) \/ HasTurn(q), Busy(r) \/ HasTurn(r)
    PROVE  \A i \in 1..Depth(q), j \in 1..Depth(r) : request[q].held[i] # request[r].held[j]
<1>1. \A i \in 1..Depth(q) : chain[request[q].held[i]][1] = <<q, i>>
  BY FirstEverywhere
<1>2. \A j \in 1..Depth(r) : chain[request[r].held[j]][1] = <<r, j>>
  BY FirstEverywhere
<1> QED
  BY <1>1, <1>2

\* Who is in a call has a channel.
LEMMA InCall ==
    ASSUME PlacesInv, NEW q \in Requests, request[q].pc \notin Ended \cup {"new"}
    PROVE  Depth(q) \in 1..Depth(q) /\ Channel(q) \in Channels
<1>1. Depth(q) \in Nat /\ Depth(q) # 0
  BY HeldType DEF PlacesInv, TypeOK, PendingHasCall
<1> QED
  BY <1>1, HeldType DEF PlacesInv, TypeOK, Channel

Places == PlacesKept /\ PlacesPending /\ PlacesDistinct /\ PendingHasCall /\ ExecutingIsFirst

\* Entering a channel keeps the places.
LEMMA PlacesEnter ==
    ASSUME PlacesInv, NEW q \in Requests, NEW key \in Channels, Enter(q, key),
           request[q].pc \in {"new", "fetch", "direct"}
    PROVE  request' \in Rows /\ chain' \in Chains /\ Places'
<1> DEFINE d == Depth(q)
<1>1. Types /\ d \in Nat
  BY HeldType DEF PlacesInv, TypeOK
<1>2. /\ request' \in Rows /\ chain' \in Chains
      /\ request'[q].pc = "queued" /\ Depth(q)' = d + 1
      /\ \A i \in 1..d : request'[q].held[i] = request[q].held[i]
      /\ request'[q].held[d + 1] = key
      /\ \A r \in Requests \ {q} : request'[r] = request[r] /\ Depth(r)' = Depth(r)
  BY <1>1, EnterEffect DEF Depth
<1>3. /\ \A ch \in Channels \ {key} : chain'[ch] = chain[ch]
      /\ Len(chain'[key]) = Len(chain[key]) + 1
      /\ \A k \in 1..Len(chain[key]) : chain'[key][k] = chain[key][k]
      /\ chain'[key][Len(chain[key]) + 1] = <<q, d + 1>>
  BY <1>1, EnterEffect
<1>4. \A ch \in Channels :
          /\ Len(chain[ch]) \in Nat /\ DOMAIN chain[ch] = 1..Len(chain[ch])
          /\ DOMAIN chain'[ch] = 1..Len(chain'[ch])
  BY <1>1, <1>2, ChainType DEF Chains
<1>5. \A ch \in Channels :
          /\ DOMAIN chain[ch] \subseteq DOMAIN chain'[ch]
          /\ \A k \in DOMAIN chain[ch] : chain'[ch][k] = chain[ch][k]
  BY <1>3, <1>4
<1>6. \A r \in Requests : \A i \in 1..Depth(r) :
          /\ request'[r].held[i] = request[r].held[i] /\ request[r].held[i] \in Channels
          /\ i \in 1..(Depth(r)')
  BY <1>1, <1>2, HeldType
<1>7. \A r \in Requests : \A i \in 1..(Depth(r)') : i \in 1..Depth(r) \/ (r = q /\ i = d + 1)
  BY <1>1, <1>2
<1> HIDE DEF d
<1>8. PlacesKept'
  <2> SUFFICES ASSUME NEW r \in Requests, NEW i \in 1..(Depth(r)')
               PROVE  \E k \in DOMAIN chain'[request'[r].held[i]] :
                          chain'[request'[r].held[i]][k] = <<r, i>>
    BY DEF PlacesKept
  <2>1. CASE i \in 1..Depth(r)
    <3>1. PICK k \in DOMAIN chain[request[r].held[i]] : chain[request[r].held[i]][k] = <<r, i>>
      BY <2>1 DEF PlacesInv, TypeOK, PlacesKept
    <3> QED
      BY <2>1, <3>1, <1>5, <1>6
  <2>2. CASE r = q /\ i = d + 1
    <3>1. Len(chain[key]) + 1 \in DOMAIN chain'[key]
      BY <1>3, <1>4
    <3> QED
      BY <2>2, <3>1, <1>2, <1>3
  <2> QED
    BY <2>1, <2>2, <1>7
<1>9. \A ch \in Channels : \A k \in DOMAIN chain'[ch] :
          k \in DOMAIN chain[ch] \/ (ch = key /\ k = Len(chain[key]) + 1)
  BY <1>3, <1>4
<1>10. PlacesPending'
  <2> SUFFICES ASSUME NEW ch \in Channels, NEW k \in DOMAIN chain'[ch]
               PROVE  \E r \in Requests : \E i \in 1..(Depth(r)') :
                          chain'[ch][k] = <<r, i>> /\ request'[r].held[i] = ch
    BY DEF PlacesPending
  <2>1. CASE k \in DOMAIN chain[ch]
    <3>1. PICK r \in Requests : \E i \in 1..Depth(r) :
              chain[ch][k] = <<r, i>> /\ request[r].held[i] = ch
      BY <2>1, Zenon DEF PlacesInv, TypeOK, PlacesPending
    <3>2. PICK i \in 1..Depth(r) : chain[ch][k] = <<r, i>> /\ request[r].held[i] = ch
      BY <3>1
    <3>3. chain'[ch][k] = <<r, i>> /\ request'[r].held[i] = ch /\ i \in 1..(Depth(r)')
      BY <2>1, <3>2, <1>5, <1>6
    <3> QED
      BY <3>3
  <2>2. CASE ch = key /\ k = Len(chain[key]) + 1
    <3>1. d + 1 \in 1..(Depth(q)')
      BY <1>1, <1>2 DEF d
    <3> QED
      BY <2>2, <3>1, <1>2, <1>3
  <2> QED
    BY <2>1, <2>2, <1>9
<1>11. \A ch \in Channels : \A k \in DOMAIN chain[ch] : chain[ch][k] # <<q, d + 1>>
  <2> SUFFICES ASSUME NEW ch \in Channels, NEW k \in DOMAIN chain[ch], chain[ch][k] = <<q, d + 1>>
               PROVE  FALSE
    OBVIOUS
  <2>1. PICK r \in Requests : \E i \in 1..Depth(r) : chain[ch][k] = <<r, i>> /\ request[r].held[i] = ch
    BY Zenon DEF PlacesInv, TypeOK, PlacesPending
  <2>2. PICK i \in 1..Depth(r) : chain[ch][k] = <<r, i>>
    BY <2>1
  <2>3. r = q /\ i = d + 1
    BY <2>2
  <2> QED
    BY <2>3, <1>1 DEF d
<1>12. PlacesDistinct'
  <2> SUFFICES ASSUME NEW ch \in Channels, NEW j \in DOMAIN chain'[ch], NEW k \in DOMAIN chain'[ch],
                      chain'[ch][j] = chain'[ch][k]
               PROVE  j = k
    BY DEF PlacesDistinct
  <2>1. CASE j \in DOMAIN chain[ch] /\ k \in DOMAIN chain[ch]
    BY <2>1, <1>5 DEF PlacesInv, TypeOK, PlacesDistinct
  <2>2. CASE j \in DOMAIN chain[ch] /\ k \notin DOMAIN chain[ch]
    BY <2>2, <1>3, <1>5, <1>9, <1>11
  <2>3. CASE j \notin DOMAIN chain[ch] /\ k \in DOMAIN chain[ch]
    BY <2>3, <1>3, <1>5, <1>9, <1>11
  <2>4. CASE j \notin DOMAIN chain[ch] /\ k \notin DOMAIN chain[ch]
    BY <2>4, <1>9
  <2> QED
    BY <2>1, <2>2, <2>3, <2>4
<1>13. PendingHasCall'
  <2> SUFFICES ASSUME NEW r \in Requests
               PROVE  Depth(r)' = 0 <=> request'[r].pc \in Ended \cup {"new"}
    BY DEF PendingHasCall
  <2>1. CASE r = q
    BY <2>1, <1>1, <1>2 DEF d, Ended
  <2>2. CASE r # q
    BY <2>2, <1>2 DEF PlacesInv, PendingHasCall
  <2> QED
    BY <2>1, <2>2
<1>14. ExecutingIsFirst'
  <2> SUFFICES ASSUME NEW r \in Requests, NEW i \in 1..(Depth(r)'), Executing(r, i)'
               PROVE  chain'[request'[r].held[i]][1] = <<r, i>>
    BY DEF ExecutingIsFirst
  <2>1. i \in 1..Depth(r)
    BY <1>1, <1>2, <1>7 DEF Executing, Busy, d
  <2>2. Executing(r, i)
    <3>1. CASE r = q
      <4>1. i < Depth(q) \/ i = Depth(q)
        BY <3>1, <2>1, <1>1 DEF d
      <4>2. i = Depth(q) => Busy(q)
        BY <3>1, <2>1, <1>1 DEF d, Busy, PlacesInv, PendingHasCall, Ended
      <4> QED
        BY <3>1, <4>1, <4>2 DEF Executing
    <3>2. CASE r # q
      BY <3>2, <1>2 DEF Executing, Busy
    <3> QED
      BY <3>1, <3>2
  <2>3. chain[request[r].held[i]][1] = <<r, i>>
    BY <2>1, <2>2 DEF PlacesInv, ExecutingIsFirst
  <2>4. 1 \in DOMAIN chain[request[r].held[i]]
    BY <2>1, <1>4, <1>6, NotEmpty
  <2> QED
    BY <2>1, <2>3, <2>4, <1>5, <1>6
<1> QED
  BY <1>2, <1>8, <1>10, <1>12, <1>13, <1>14 DEF Places

\* Settling keeps the places of the other requests.
LEMMA PlacesSettle ==
    ASSUME PlacesInv, NEW q \in Requests, NEW outcome \in Ended, Settle(q, outcome),
           Busy(q) \/ HasTurn(q)
    PROVE  request' \in Rows /\ chain' \in Chains /\ Places'
<1> DEFINE Holds(ch) == \E j \in 1..Depth(q) : request[q].held[j] = ch
<1>1. Types
  BY DEF PlacesInv, TypeOK
<1>2. \A j \in 1..Depth(q) : chain[request[q].held[j]][1] = <<q, j>>
  BY FirstEverywhere
<1>3. \A j \in 1..Depth(q) : Len(chain[request[q].held[j]]) > 0
  BY HeldNotEmpty
<1>4. /\ request' \in Rows /\ chain' \in Chains
      /\ request'[q].pc \in Ended /\ Depth(q)' = 0
      /\ \A r \in Requests \ {q} : request'[r] = request[r] /\ Depth(r)' = Depth(r)
  BY <1>1, <1>3, SettleEffect DEF Depth
<1>5. \A ch \in Channels : Holds(ch) =>
          /\ Len(chain'[ch]) = Len(chain[ch]) - 1
          /\ \A k \in 1..(Len(chain[ch]) - 1) : chain'[ch][k] = chain[ch][k + 1]
  BY <1>1, <1>3, SettleEffect
<1>6. \A ch \in Channels : ~Holds(ch) => chain'[ch] = chain[ch]
  BY <1>1, <1>3, SettleEffect
<1>7. \A ch \in Channels :
          /\ Len(chain[ch]) \in Nat /\ DOMAIN chain[ch] = 1..Len(chain[ch])
          /\ DOMAIN chain'[ch] = 1..Len(chain'[ch])
  BY <1>1, <1>4, ChainType DEF Chains
<1>8. \A ch \in Channels : Holds(ch) => \E j \in 1..Depth(q) : chain[ch][1] = <<q, j>>
  BY <1>2
<1>9. \A r \in Requests \ {q} : \A i \in 1..Depth(r) : request[r].held[i] \in Channels
  BY <1>1, HeldType
<1>10. \A r \in Requests : \A i \in 1..(Depth(r)') :
           r # q /\ i \in 1..Depth(r) /\ request'[r].held[i] = request[r].held[i]
  BY <1>4
<1> HIDE DEF Holds
<1>11. PlacesKept'
  <2> SUFFICES ASSUME NEW r \in Requests, NEW i \in 1..(Depth(r)')
               PROVE  \E k \in DOMAIN chain'[request'[r].held[i]] :
                          chain'[request'[r].held[i]][k] = <<r, i>>
    BY DEF PlacesKept
  <2> DEFINE ch == request[r].held[i]
  <2>1. r # q /\ i \in 1..Depth(r) /\ request'[r].held[i] = ch /\ ch \in Channels
    BY <1>9, <1>10
  <2>2. PICK k \in DOMAIN chain[ch] : chain[ch][k] = <<r, i>>
    BY <2>1 DEF PlacesInv, TypeOK, PlacesKept
  <2> HIDE DEF ch
  <2>3. CASE Holds(ch)
    <3>1. k # 1
      BY <1>8, <2>1, <2>2, <2>3
    <3>2. k - 1 \in DOMAIN chain'[ch] /\ k - 1 \in 1..(Len(chain[ch]) - 1) /\ (k - 1) + 1 = k
      BY <1>5, <1>7, <2>1, <2>2, <2>3, <3>1
    <3>3. chain'[ch][k - 1] = chain[ch][k]
      BY <1>5, <2>1, <2>3, <3>2
    <3> QED
      BY <2>1, <2>2, <3>2, <3>3
  <2>4. CASE ~Holds(ch)
    BY <1>6, <2>1, <2>2, <2>4
  <2> QED
    BY <2>3, <2>4
<1>12. ASSUME NEW ch \in Channels, Holds(ch), NEW k \in DOMAIN chain'[ch]
       PROVE  /\ k + 1 \in DOMAIN chain[ch] /\ 1 \in DOMAIN chain[ch] /\ k + 1 # 1
              /\ chain'[ch][k] = chain[ch][k + 1]
  <2>1. /\ Len(chain[ch]) \in Nat /\ DOMAIN chain[ch] = 1..Len(chain[ch])
        /\ DOMAIN chain'[ch] = 1..Len(chain'[ch]) /\ Len(chain'[ch]) = Len(chain[ch]) - 1
    BY <1>5, <1>7, <1>12
  <2>2. k \in 1..(Len(chain[ch]) - 1)
    BY <2>1, <1>12
  <2> QED
    BY <1>5, <1>12, <2>1, <2>2
<1>13. ASSUME NEW ch \in Channels, NEW k \in DOMAIN chain'[ch]
       PROVE  \E r \in Requests : \E i \in 1..Depth(r) :
                  r # q /\ chain'[ch][k] = <<r, i>> /\ request[r].held[i] = ch
  <2>1. CASE Holds(ch)
    <3>1. /\ k + 1 \in DOMAIN chain[ch] /\ 1 \in DOMAIN chain[ch] /\ k + 1 # 1
          /\ chain'[ch][k] = chain[ch][k + 1]
      BY <1>12, <1>13, <2>1
    <3>2. PICK r \in Requests : \E i \in 1..Depth(r) :
              chain[ch][k + 1] = <<r, i>> /\ request[r].held[i] = ch
      BY <1>13, <3>1, Zenon DEF PlacesInv, TypeOK, PlacesPending
    <3>3. PICK i \in 1..Depth(r) : chain[ch][k + 1] = <<r, i>> /\ request[r].held[i] = ch
      BY <3>2
    <3>4. r # q
      <4>1. SUFFICES ASSUME r = q PROVE FALSE
        OBVIOUS
      <4>2. chain[ch][1] = chain[ch][k + 1]
        BY <1>2, <3>3, <4>1
      <4> QED
        BY <1>13, <3>1, <4>2 DEF PlacesInv, TypeOK, PlacesDistinct
    <3> QED
      BY <3>1, <3>3, <3>4
  <2>2. CASE ~Holds(ch)
    <3>1. chain'[ch] = chain[ch] /\ ch \in Channels /\ k \in DOMAIN chain[ch]
      BY <1>6, <1>13, <2>2
    <3>2. PICK r \in Requests : \E i \in 1..Depth(r) :
              chain[ch][k] = <<r, i>> /\ request[r].held[i] = ch
      BY <3>1, Zenon DEF PlacesInv, TypeOK, PlacesPending
    <3>3. r # q
      BY <2>2, <3>2 DEF Holds
    <3> QED
      BY <3>1, <3>2, <3>3
  <2> QED
    BY <2>1, <2>2
<1>14. PlacesPending'
  <2> SUFFICES ASSUME NEW ch \in Channels, NEW k \in DOMAIN chain'[ch]
               PROVE  \E r \in Requests : \E i \in 1..(Depth(r)') :
                          chain'[ch][k] = <<r, i>> /\ request'[r].held[i] = ch
    BY DEF PlacesPending
  <2>1. PICK r \in Requests : \E i \in 1..Depth(r) :
            r # q /\ chain'[ch][k] = <<r, i>> /\ request[r].held[i] = ch
    BY <1>13
  <2>2. request'[r] = request[r] /\ Depth(r)' = Depth(r)
    BY <2>1, <1>4
  <2> QED
    BY <2>1, <2>2
<1>15. PlacesDistinct'
  <2> SUFFICES ASSUME NEW ch \in Channels, NEW j \in DOMAIN chain'[ch], NEW k \in DOMAIN chain'[ch],
                      chain'[ch][j] = chain'[ch][k]
               PROVE  j = k
    BY DEF PlacesDistinct
  <2>1. CASE Holds(ch)
    <3>1. /\ j + 1 \in DOMAIN chain[ch] /\ chain'[ch][j] = chain[ch][j + 1]
          /\ k + 1 \in DOMAIN chain[ch] /\ chain'[ch][k] = chain[ch][k + 1]
      BY <1>12, <2>1
    <3>2. j + 1 = k + 1
      <4>1. chain[ch][j + 1] = chain[ch][k + 1]
        BY <3>1
      <4>2. \A m, n \in DOMAIN chain[ch] : chain[ch][m] = chain[ch][n] => m = n
        BY Zenon DEF PlacesInv, TypeOK, PlacesDistinct
      <4> QED
        BY <3>1, <4>1, <4>2, Zenon
    <3>3. j \in Nat /\ k \in Nat
      BY <1>7
    <3> QED
      BY <3>2, <3>3
  <2>2. CASE ~Holds(ch)
    BY <2>2, <1>6 DEF PlacesInv, TypeOK, PlacesDistinct
  <2> QED
    BY <2>1, <2>2
<1>16. PendingHasCall'
  BY <1>4 DEF PlacesInv, PendingHasCall
<1>17. ExecutingIsFirst'
  <2> SUFFICES ASSUME NEW r \in Requests, NEW i \in 1..(Depth(r)'), Executing(r, i)'
               PROVE  chain'[request'[r].held[i]][1] = <<r, i>>
    BY DEF ExecutingIsFirst
  <2>1. r # q /\ i \in 1..Depth(r) /\ request'[r] = request[r] /\ request[r].held[i] \in Channels
    BY <1>4, <1>9, <1>10
  <2>2. chain[request[r].held[i]][1] = <<r, i>>
    BY <2>1 DEF PlacesInv, ExecutingIsFirst, Executing, Busy, Depth
  <2>3. ~Holds(request[r].held[i])
    BY <1>8, <2>1, <2>2
  <2> QED
    BY <1>6, <2>1, <2>2, <2>3
<1> QED
  BY <1>4, <1>11, <1>14, <1>15, <1>16, <1>17 DEF Places

\* So does a step that moves a row on without a call entering or settling.
LEMMA PlacesMove ==
    ASSUME PlacesInv, request' \in Rows, chain' = chain,
           \A r \in Requests :
               /\ request'[r].held = request[r].held
               /\ request'[r].pc \in Ended \cup {"new"} <=> request[r].pc \in Ended \cup {"new"}
               /\ Busy(r)' => Busy(r) \/ HasTurn(r)
    PROVE  chain' \in Chains /\ Places'
<1>1. \A r \in Requests : Depth(r)' = Depth(r)
  BY DEF Depth
<1>2. chain' \in Chains
  BY DEF PlacesInv, TypeOK, Types, Chains
<1>3. PlacesKept'
  BY <1>1 DEF PlacesInv, TypeOK, PlacesKept
<1>4. PlacesPending'
  <2> SUFFICES ASSUME NEW ch \in Channels, NEW k \in DOMAIN chain[ch]
               PROVE  \E r \in Requests : \E i \in 1..(Depth(r)') :
                          chain[ch][k] = <<r, i>> /\ request'[r].held[i] = ch
    BY DEF PlacesPending
  <2>1. PICK r \in Requests : \E i \in 1..Depth(r) :
            chain[ch][k] = <<r, i>> /\ request[r].held[i] = ch
    BY Zenon DEF PlacesInv, TypeOK, PlacesPending
  <2> QED
    BY <1>1, <2>1
<1>5. PlacesDistinct'
  BY DEF PlacesInv, TypeOK, PlacesDistinct
<1>6. PendingHasCall'
  BY <1>1 DEF PlacesInv, PendingHasCall
<1>7. ExecutingIsFirst'
  <2> SUFFICES ASSUME NEW r \in Requests, NEW i \in 1..(Depth(r)'), Executing(r, i)'
               PROVE  chain'[request'[r].held[i]][1] = <<r, i>>
    BY DEF ExecutingIsFirst
  <2>1. i \in 1..Depth(r) /\ request'[r].held = request[r].held
    BY <1>1
  <2>2. chain[request[r].held[i]][1] = <<r, i>>
    <3>1. CASE i < Depth(r)
      BY <2>1, <3>1 DEF PlacesInv, ExecutingIsFirst, Executing
    <3>2. CASE Busy(r) \/ HasTurn(r)
      BY <2>1, <3>2, FirstEverywhere
    <3> QED
      BY <1>1, <3>1, <3>2 DEF Executing
  <2> QED
    BY <2>1, <2>2
<1> QED
  BY <1>2, <1>3, <1>4, <1>5, <1>6, <1>7 DEF Places

-----------------------------------------------------------------------------
(* The invariant.                                                          *)

\* One at a time: it follows from the places alone.
LEMMA PlacesSeparate == PlacesInv => OneAtATimePerChannel
<1> SUFFICES ASSUME PlacesInv, NEW q \in Requests, NEW r \in Requests, q # r, Busy(q), Busy(r),
                    NEW i \in 1..Depth(r)
             PROVE  Channel(q) # request[r].held[i]
  BY DEF OneAtATimePerChannel
<1>1. Depth(q) \in 1..Depth(q)
  BY InCall DEF Busy, Ended
<1> QED
  BY <1>1, Alone DEF Channel

\* Types and places make up the invariant's part about chains.
LEMMA PlacesCompose ==
    ASSUME request' \in Rows, chain' \in Chains, Places',
           cooling' \in [Channels -> BOOLEAN], recent' \in [Channels -> BOOLEAN]
    PROVE  PlacesInv'
BY DEF Rows, Chains, Places, PlacesInv, TypeOK, Types

\* Where a call enters or settles, or begins, nobody else sleeps: the sleeps stay long enough.
LEMMA SleepAside ==
    ASSUME IndInv, NEW p \in Requests, Busy(p) \/ HasTurn(p),
           \A r \in Requests \ {p} : request'[r] = request[r],
           request'[p].pc # "asleep",
           \A ch \in Channels \ {Channel(p)} :
               recent'[ch] = recent[ch] /\ cooling'[ch] = cooling[ch]
    PROVE  SleepCoversAll'
<1> SUFFICES ASSUME NEW q \in Requests, request'[q].pc = "asleep"
             PROVE  /\ recent'[Channel(q)'] => "interval" \in request'[q].waits
                    /\ cooling'[Channel(q)'] => "cooldown" \in request'[q].waits
  BY DEF SleepCoversAll
<1>1. PlacesInv
  BY DEF IndInv, PlacesInv
<1>2. q # p /\ request'[q] = request[q] /\ request[q].pc = "asleep"
  OBVIOUS
<1>3. Channel(q)' = Channel(q)
  BY <1>2 DEF Channel, Depth
<1>4. Depth(q) \in 1..Depth(q) /\ Channel(q) \in Channels
  BY <1>1, <1>2, InCall DEF Ended
<1>5. Depth(p) \in 1..Depth(p)
  BY <1>1, InCall DEF Busy, HasTurn, Ended
<1>6. Channel(q) # Channel(p)
  BY <1>1, <1>2, <1>4, <1>5, Alone DEF Channel, Busy
<1> QED
  BY <1>2, <1>3, <1>4, <1>6 DEF IndInv, SleepCoversAll

\* A step that leaves time alone and sends nobody to sleep keeps the sleeps.
LEMMA SleepUnchanged ==
    ASSUME IndInv, UNCHANGED <<cooling, recent>>,
           \A r \in Requests : request'[r].pc = "asleep" =>
               /\ request[r].pc = "asleep" /\ request'[r].held = request[r].held
               /\ request'[r].waits = request[r].waits
    PROVE  SleepCoversAll'
BY DEF IndInv, SleepCoversAll, Channel, Depth

\* A call that enters.
LEMMA EnterKeeps ==
    ASSUME IndInv, NEW q \in Requests, NEW key \in Channels, Enter(q, key),
           request[q].pc \in {"new", "fetch", "direct"}, UNCHANGED recent,
           UNCHANGED cooling \/ (Backoff(q) /\ Busy(q))
    PROVE  IndInv'
<1>1. PlacesInv /\ Types
  BY DEF IndInv, PlacesInv, TypeOK
<1>2. request' \in Rows /\ chain' \in Chains /\ Places'
  BY <1>1, PlacesEnter
<1>3. cooling' \in [Channels -> BOOLEAN] /\ recent' \in [Channels -> BOOLEAN]
  BY <1>1 DEF Types, Backoff
<1>4. request'[q].pc = "queued" /\ \A r \in Requests \ {q} : request'[r] = request[r]
  BY <1>1, EnterEffect
<1>5. SleepCoversAll'
  <2>1. CASE UNCHANGED cooling
    BY <1>4, <2>1, SleepUnchanged
  <2>2. CASE Backoff(q) /\ Busy(q)
    <3>1. \A ch \in Channels \ {Channel(q)} : recent'[ch] = recent[ch] /\ cooling'[ch] = cooling[ch]
      BY <1>1, <2>2 DEF Backoff, Types
    <3> QED
      BY <1>4, <2>2, <3>1, SleepAside
  <2> QED
    BY <2>1, <2>2
<1> QED
  BY <1>2, <1>3, <1>5, PlacesCompose DEF IndInv, PlacesInv

\* A request that settles.
LEMMA SettleKeeps ==
    ASSUME IndInv, NEW q \in Requests, NEW outcome \in Ended, Settle(q, outcome),
           Busy(q) \/ HasTurn(q),
           cooling' \in [Channels -> BOOLEAN], recent' \in [Channels -> BOOLEAN],
           \A ch \in Channels \ {Channel(q)} : recent'[ch] = recent[ch] /\ cooling'[ch] = cooling[ch]
    PROVE  IndInv'
<1>1. PlacesInv /\ Types
  BY DEF IndInv, PlacesInv, TypeOK
<1>2. request' \in Rows /\ chain' \in Chains /\ Places'
  BY <1>1, PlacesSettle
<1>3. request'[q].pc # "asleep" /\ \A r \in Requests \ {q} : request'[r] = request[r]
  <2>1. \A i \in 1..Depth(q) : Len(chain[request[q].held[i]]) > 0
    BY <1>1, HeldNotEmpty
  <2> QED
    BY <1>1, <2>1, SettleEffect DEF Ended
<1>4. SleepCoversAll'
  BY <1>3, SleepAside
<1> QED
  BY <1>2, <1>4, PlacesCompose DEF IndInv, PlacesInv

\* A retry or the failure that stands for it.
LEMMA RetryKeeps ==
    ASSUME IndInv, NEW q \in Requests, RetryOrFail(q), request[q].pc \in {"fetch", "direct"},
           UNCHANGED recent, UNCHANGED cooling \/ Backoff(q)
    PROVE  IndInv'
<1>1. Busy(q) /\ Types
  BY DEF Busy, IndInv, TypeOK
<1>2. CASE \E key \in Keys : Enter(q, key)
  BY <1>1, <1>2, KeysAreChannels, EnterKeeps
<1>3. CASE Settle(q, "failed")
  <2>1. cooling' \in [Channels -> BOOLEAN] /\ recent' \in [Channels -> BOOLEAN]
    BY <1>1 DEF Types, Backoff
  <2>2. \A ch \in Channels \ {Channel(q)} : recent'[ch] = recent[ch] /\ cooling'[ch] = cooling[ch]
    BY <1>1 DEF Types, Backoff
  <2> QED
    BY <1>1, <1>3, <2>1, <2>2, SettleKeeps DEF Ended
<1> QED
  BY <1>2, <1>3 DEF RetryOrFail

\* A call that begins, or ends at once because its caller gave up.
LEMMA BeginKeeps ==
    ASSUME IndInv, NEW q \in Requests, Begin(q), HasTurn(q) \/ request[q].pc = "asleep"
    PROVE  IndInv'
<1>1. PlacesInv /\ Types /\ (Busy(q) \/ HasTurn(q)) /\ request[q] \in RequestState
  BY HeldType DEF IndInv, PlacesInv, TypeOK, Busy
<1>2. cooling' \in [Channels -> BOOLEAN] /\ recent' \in [Channels -> BOOLEAN]
  BY <1>1 DEF Types, Begin
<1>3. \A ch \in Channels \ {Channel(q)} : recent'[ch] = recent[ch] /\ cooling'[ch] = cooling[ch]
  BY <1>1 DEF Types, Begin
<1>4. CASE Settle(q, "failed")
  BY <1>1, <1>2, <1>3, <1>4, SettleKeeps DEF Ended
<1>5. CASE request' = [request EXCEPT ![q].pc = "fetch"] /\ UNCHANGED chain
  <2>1. [request[q] EXCEPT !.pc = "fetch"] \in RequestState
    BY <1>1 DEF RequestState, Steps
  <2>2. request' \in Rows
    BY <1>1, <1>5, <2>1 DEF Rows, Types
  <2>3. request'[q].pc = "fetch" /\ request'[q].held = request[q].held
    BY <1>1, <1>5 DEF Types, RequestState
  <2>4. \A r \in Requests \ {q} : request'[r] = request[r]
    BY <1>1, <1>5 DEF Types
  <2>5. \A r \in Requests :
            /\ request'[r].held = request[r].held
            /\ request'[r].pc \in Ended \cup {"new"} <=> request[r].pc \in Ended \cup {"new"}
            /\ Busy(r)' => Busy(r) \/ HasTurn(r)
    BY <1>1, <2>3, <2>4 DEF Busy, HasTurn, Ended
  <2>6. chain' \in Chains /\ Places'
    BY <1>1, <1>5, <2>2, <2>5, PlacesMove
  <2>7. SleepCoversAll'
    BY <1>1, <1>3, <2>3, <2>4, SleepAside
  <2> QED
    BY <1>2, <2>2, <2>6, <2>7, PlacesCompose DEF IndInv, PlacesInv
<1> QED
  BY <1>4, <1>5 DEF Begin

\* A step that changes the row of one request only, without a call entering or settling.
LEMMA RowKeeps ==
    ASSUME IndInv, NEW q \in Requests, NEW row \in RequestState,
           request' = [request EXCEPT ![q] = row], UNCHANGED <<chain, cooling, recent>>,
           row.held = request[q].held,
           row.pc \in Ended \cup {"new"} <=> request[q].pc \in Ended \cup {"new"},
           row.pc \in {"asleep", "fetch", "direct"} => Busy(q) \/ HasTurn(q),
           row.pc = "asleep" =>
               /\ recent[Channel(q)] => "interval" \in row.waits
               /\ cooling[Channel(q)] => "cooldown" \in row.waits
    PROVE  IndInv'
<1>1. PlacesInv /\ Types
  BY DEF IndInv, PlacesInv, TypeOK
<1>2. request' \in Rows /\ request'[q] = row /\ \A r \in Requests \ {q} : request'[r] = request[r]
  BY <1>1 DEF Types, Rows
<1>3. \A r \in Requests :
          /\ request'[r].held = request[r].held
          /\ request'[r].pc \in Ended \cup {"new"} <=> request[r].pc \in Ended \cup {"new"}
          /\ Busy(r)' => Busy(r) \/ HasTurn(r)
  BY <1>2 DEF Busy
<1>4. chain' \in Chains /\ Places'
  BY <1>1, <1>2, <1>3, PlacesMove
<1>5. \A r \in Requests : Channel(r)' = Channel(r)
  BY <1>3 DEF Channel, Depth
<1>6. SleepCoversAll'
  <2> SUFFICES ASSUME NEW r \in Requests, request'[r].pc = "asleep"
               PROVE  /\ recent[Channel(r)] => "interval" \in request'[r].waits
                      /\ cooling[Channel(r)] => "cooldown" \in request'[r].waits
    BY <1>5 DEF SleepCoversAll
  <2>1. CASE r = q
    BY <1>2, <2>1
  <2>2. CASE r # q
    BY <1>2, <2>2 DEF IndInv, SleepCoversAll
  <2> QED
    BY <2>1, <2>2
<1>7. cooling' \in [Channels -> BOOLEAN] /\ recent' \in [Channels -> BOOLEAN]
  BY <1>1 DEF Types
<1> QED
  BY <1>2, <1>4, <1>6, <1>7, PlacesCompose DEF IndInv, PlacesInv

\* The turn of a call comes: it begins, or sleeps for what it sees.
LEMMA TurnKeeps ==
    ASSUME IndInv, NEW q \in Requests, turn(q)
    PROVE  IndInv'
<1>1. Types /\ request[q] \in RequestState /\ HasTurn(q) /\ request[q].pc = "queued"
  BY HeldType DEF IndInv, TypeOK, turn, HasTurn
<1>2. CASE Begin(q)
  BY <1>1, <1>2, BeginKeeps
<1>3. CASE /\ request' = [request EXCEPT ![q].pc = "asleep", ![q].waits = Wait(q)]
           /\ UNCHANGED <<chain, cooling, recent>>
  <2> DEFINE row == [request[q] EXCEPT !.pc = "asleep", !.waits = Wait(q)]
  <2>1. Wait(q) \in SUBSET {"interval", "cooldown"}
    BY DEF Wait
  <2>2. row \in RequestState
    BY <1>1, <2>1 DEF RequestState, Steps
  <2>3. row.pc = "asleep" /\ row.held = request[q].held /\ row.waits = Wait(q)
    BY <1>1 DEF RequestState
  <2>4. request' = [request EXCEPT ![q] = row]
    BY <1>1, <1>3 DEF Types
  <2>5. /\ recent[Channel(q)] => "interval" \in Wait(q)
        /\ cooling[Channel(q)] => "cooldown" \in Wait(q)
    BY DEF Wait
  <2> HIDE DEF row
  <2> QED
    BY <1>1, <1>3, <2>2, <2>3, <2>4, <2>5, RowKeeps DEF Ended
<1> QED
  BY <1>2, <1>3 DEF turn

\* The connection fails: a direct attempt under the same turn, a retry, or the end.
LEMMA NetworkErrorKeeps ==
    ASSUME IndInv, NEW q \in Requests, networkError(q)
    PROVE  IndInv'
<1>1. /\ Types /\ request[q] \in RequestState
      /\ request[q].pc \in {"fetch", "direct"} /\ UNCHANGED <<cooling, recent>>
  BY HeldType DEF IndInv, TypeOK, networkError, Fetching
<1>2. CASE RetryOrFail(q)
  BY <1>1, <1>2, RetryKeeps
<1>3. CASE request' = [request EXCEPT ![q].pc = "direct"] /\ UNCHANGED chain
  <2> DEFINE row == [request[q] EXCEPT !.pc = "direct"]
  <2>1. row \in RequestState
    BY <1>1 DEF RequestState, Steps
  <2>2. row.pc = "direct" /\ row.held = request[q].held
    BY <1>1 DEF RequestState
  <2>3. request' = [request EXCEPT ![q] = row]
    BY <1>1, <1>3 DEF Types
  <2>4. Busy(q)
    BY <1>1 DEF Busy
  <2> HIDE DEF row
  <2> QED
    BY <1>1, <1>3, <2>1, <2>2, <2>3, <2>4, RowKeeps DEF Ended
<1> QED
  BY <1>2, <1>3 DEF networkError

\* The portal's timer marks the request and nothing else.
LEMMA TimeoutKeeps ==
    ASSUME IndInv, NEW q \in Requests, portalTimeout(q)
    PROVE  IndInv'
<1>1. Types /\ request[q] \in RequestState
  BY HeldType DEF IndInv, TypeOK
<1> DEFINE row == [request[q] EXCEPT !.aborted = TRUE]
<1>2. row \in RequestState
  BY <1>1 DEF RequestState
<1>3. row.pc = request[q].pc /\ row.held = request[q].held /\ row.waits = request[q].waits
  BY <1>1 DEF RequestState
<1>4. request' = [request EXCEPT ![q] = row] /\ UNCHANGED <<chain, cooling, recent>>
  BY <1>1 DEF Types, portalTimeout
<1>5. row.pc = "asleep" =>
          /\ recent[Channel(q)] => "interval" \in row.waits
          /\ cooling[Channel(q)] => "cooldown" \in row.waits
  BY <1>3 DEF IndInv, SleepCoversAll
<1>6. row.pc \in {"asleep", "fetch", "direct"} => Busy(q)
  BY <1>3 DEF Busy
<1> HIDE DEF row
<1> QED
  BY <1>2, <1>3, <1>4, <1>5, <1>6, RowKeeps

\* Time that passes on a channel only shortens the sleeps on it.
LEMMA ElapsedEffect ==
    ASSUME Types, NEW ch \in Channels, NEW what \in {"interval", "cooldown"}, Elapsed(ch, what),
           NEW r \in Requests
    PROVE  /\ request'[r] \in RequestState
           /\ request'[r].pc = request[r].pc /\ request'[r].held = request[r].held
           /\ request'[r].waits = IF request[r].pc = "asleep" /\ Channel(r) = ch
                                  THEN request[r].waits \ {what} ELSE request[r].waits
<1>1. request[r] \in RequestState
  BY HeldType
<1>2. CASE request[r].pc = "asleep" /\ Channel(r) = ch
  <2>1. request'[r] = [request[r] EXCEPT !.waits = @ \ {what}]
    BY <1>2 DEF Elapsed
  <2> QED
    BY <1>1, <1>2, <2>1 DEF RequestState
<1>3. CASE ~(request[r].pc = "asleep" /\ Channel(r) = ch)
  <2>1. request'[r] = request[r]
    BY <1>3 DEF Elapsed
  <2> QED
    BY <1>1, <1>3, <2>1
<1> QED
  BY <1>2, <1>3

\* Time passes on one channel: what is over is waited for no longer.
LEMMA TimeKeeps ==
    ASSUME IndInv, NEW ch \in Channels, intervalPasses(ch) \/ cooldownPasses(ch)
    PROVE  IndInv'
<1>1. PlacesInv /\ Types
  BY DEF IndInv, PlacesInv, TypeOK
<1>2. PICK what \in {"interval", "cooldown"} :
          /\ Elapsed(ch, what) /\ UNCHANGED chain
          /\ recent' = [recent EXCEPT ![ch] = IF what = "interval" THEN FALSE ELSE @]
          /\ cooling' = [cooling EXCEPT ![ch] = IF what = "cooldown" THEN FALSE ELSE @]
  <2>1. CASE intervalPasses(ch)
    BY <1>1, <2>1 DEF intervalPasses, Types
  <2>2. CASE cooldownPasses(ch)
    BY <1>1, <2>2 DEF cooldownPasses, Types
  <2> QED
    BY <2>1, <2>2
<1>3. ASSUME NEW r \in Requests
      PROVE  /\ request'[r] \in RequestState
             /\ request'[r].pc = request[r].pc /\ request'[r].held = request[r].held
             /\ request'[r].waits = IF request[r].pc = "asleep" /\ Channel(r) = ch
                                    THEN request[r].waits \ {what} ELSE request[r].waits
  BY <1>1, <1>2, ElapsedEffect
<1>4. request' \in Rows
  BY <1>2, <1>3 DEF Elapsed, Rows
<1>5. chain' \in Chains /\ Places'
  <2>1. \A r \in Requests :
            /\ request'[r].held = request[r].held
            /\ request'[r].pc \in Ended \cup {"new"} <=> request[r].pc \in Ended \cup {"new"}
            /\ Busy(r)' => Busy(r) \/ HasTurn(r)
    BY <1>3 DEF Busy
  <2> QED
    BY <1>1, <1>2, <1>4, <2>1, PlacesMove
<1>6. cooling' \in [Channels -> BOOLEAN] /\ recent' \in [Channels -> BOOLEAN]
  BY <1>1, <1>2 DEF Types
<1>7. SleepCoversAll'
  <2> SUFFICES ASSUME NEW r \in Requests, request'[r].pc = "asleep"
               PROVE  /\ recent'[Channel(r)'] => "interval" \in request'[r].waits
                      /\ cooling'[Channel(r)'] => "cooldown" \in request'[r].waits
    BY DEF SleepCoversAll
  <2>1. Channel(r)' = Channel(r) /\ request[r].pc = "asleep" /\ Channel(r) \in Channels
    BY <1>1, <1>3, InCall DEF Channel, Depth, Ended
  <2>2. /\ recent[Channel(r)] => "interval" \in request[r].waits
        /\ cooling[Channel(r)] => "cooldown" \in request[r].waits
    BY <2>1 DEF IndInv, SleepCoversAll
  <2>3. CASE Channel(r) = ch /\ what = "interval"
    BY <1>1, <1>2, <1>3, <2>1, <2>2, <2>3 DEF Types
  <2>4. CASE Channel(r) = ch /\ what = "cooldown"
    BY <1>1, <1>2, <1>3, <2>1, <2>2, <2>4 DEF Types
  <2>5. CASE Channel(r) # ch
    BY <1>1, <1>2, <1>3, <2>1, <2>2, <2>5 DEF Types
  <2> QED
    BY <2>3, <2>4, <2>5
<1> QED
  BY <1>4, <1>5, <1>6, <1>7, PlacesCompose DEF IndInv, PlacesInv

\* In the first state nothing is pending.
LEMMA InitIndInv == Init => IndInv
<1> SUFFICES ASSUME Init PROVE IndInv
  OBVIOUS
<1>1. [pc |-> "new", held |-> <<>>, waits |-> {}, aborted |-> FALSE] \in RequestState
  BY DEF RequestState, Steps
<1>2. Types
  BY <1>1 DEF Init, Types
<1>3. \A q \in Requests : Depth(q) = 0 /\ request[q].pc = "new"
  BY DEF Init, Depth
<1>4. \A ch \in Channels : DOMAIN chain[ch] = {}
  BY DEF Init
<1>5. TypeOK
  BY <1>2, <1>3, <1>4 DEF TypeOK, PlacesKept, PlacesPending, PlacesDistinct
<1>6. PendingHasCall /\ ExecutingIsFirst /\ SleepCoversAll
  BY <1>3 DEF PendingHasCall, ExecutingIsFirst, SleepCoversAll
<1> QED
  BY <1>5, <1>6 DEF IndInv

\* Every action keeps the invariant.
LEMMA IndInvStep == IndInv /\ [Next]_vars => IndInv'
<1> SUFFICES ASSUME IndInv, [Next]_vars PROVE IndInv'
  OBVIOUS
<1>1. ASSUME NEW q \in Requests, fetchPortal(q) PROVE IndInv'
  BY <1>1, KeysAreChannels, EnterKeeps DEF fetchPortal
<1>2. ASSUME NEW q \in Requests, apiRequest(q) PROVE IndInv'
  BY <1>2, KeysAreChannels, EnterKeeps DEF apiRequest
<1>3. ASSUME NEW q \in Requests, fetchHtmlViaMediaWikiApi(q) PROVE IndInv'
  BY <1>3, KeysAreChannels, EnterKeeps DEF fetchHtmlViaMediaWikiApi, Fetching
<1>4. ASSUME NEW q \in Requests, turn(q) PROVE IndInv'
  BY <1>4, TurnKeeps
<1>5. ASSUME NEW q \in Requests, wake(q) PROVE IndInv'
  BY <1>5, BeginKeeps DEF wake
<1>6. ASSUME NEW q \in Requests, answered(q) \/ otherError(q) PROVE IndInv'
  BY <1>6, SettleKeeps DEF answered, otherError, Fetching, Busy, Ended, IndInv, TypeOK, Types
<1>7. ASSUME NEW q \in Requests, networkError(q) PROVE IndInv'
  BY <1>7, NetworkErrorKeeps
<1>8. ASSUME NEW q \in Requests, blocked(q) PROVE IndInv'
  BY <1>8, RetryKeeps DEF blocked, Fetching
<1>9. ASSUME NEW q \in Requests, rateLimited(q) PROVE IndInv'
  <2>1. cooling' \in [Channels -> BOOLEAN] /\ recent' \in [Channels -> BOOLEAN]
    BY <1>9 DEF rateLimited, Backoff, IndInv, TypeOK, Types
  <2>2. \A ch \in Channels \ {Channel(q)} : recent'[ch] = recent[ch] /\ cooling'[ch] = cooling[ch]
    BY <1>9 DEF rateLimited, Backoff, IndInv, TypeOK, Types
  <2> QED
    BY <1>9, <2>1, <2>2, SettleKeeps DEF rateLimited, Fetching, Busy, Ended
<1>10. ASSUME NEW q \in Requests, portalTimeout(q) PROVE IndInv'
  BY <1>10, TimeoutKeeps
<1>11. CASE Time
  BY <1>11, TimeKeeps DEF Time
<1>12. CASE UNCHANGED vars
  <2>1. chain' = chain /\ cooling' = cooling /\ recent' = recent /\ request' = request
    BY <1>12 DEF vars
  <2>2. PlacesInv /\ request' \in Rows
    BY <2>1 DEF IndInv, PlacesInv, TypeOK, Types, Rows
  <2>3. chain' \in Chains /\ Places'
    BY <2>1, <2>2, PlacesMove DEF Busy
  <2>4. cooling' \in [Channels -> BOOLEAN] /\ recent' \in [Channels -> BOOLEAN]
    BY <2>1 DEF IndInv, TypeOK, Types
  <2>5. SleepCoversAll'
    BY <2>1, SleepUnchanged
  <2> QED
    BY <2>2, <2>3, <2>4, <2>5, PlacesCompose DEF IndInv, PlacesInv
<1> QED
  BY <1>1, <1>2, <1>3, <1>4, <1>5, <1>6, <1>7, <1>8, <1>9, <1>10, <1>11, <1>12
  DEF Next, Serve, Respond

-----------------------------------------------------------------------------
(* Theorems.                                                               *)

\* The inductive invariant of the limiter and its callers.
THEOREM Inductive == Spec => []IndInv
<1>1. Init => IndInv
  BY InitIndInv
<1>2. IndInv /\ [Next]_vars => IndInv'
  BY IndInvStep
<1> QED
  BY <1>1, <1>2, PTL DEF Spec

\* A chain always holds exactly the pending calls, each once, on the channel it entered.
THEOREM ChainsExact == Spec => []TypeOK
<1>1. IndInv => TypeOK
  BY DEF IndInv
<1> QED
  BY <1>1, Inductive, PTL

\* No two requests work on one channel at a time, whatever retries and fallbacks nest.
THEOREM ChannelsExclusive == Spec => []OneAtATimePerChannel
<1>1. IndInv => OneAtATimePerChannel
  BY PlacesSeparate DEF IndInv, PlacesInv
<1> QED
  BY <1>1, Inductive, PTL

\* A call that begins finds the interval and the cooldown of its channel over, although it
\* looked at them only once, before it slept.
LEMMA BeginsInTime ==
    ASSUME IndInv, Next, NEW q \in Requests, Begins(q)
    PROVE  ~recent[Channel(q)] /\ ~cooling[Channel(q)]
<1>1. Types /\ request[q].pc \in {"queued", "asleep"} /\ request'[q].pc = "fetch"
  BY DEF IndInv, TypeOK, Begins
<1>2. request'[q] # request[q]
  BY <1>1
<1>3. CASE turn(q)
  <2>1. CASE Wait(q) = {}
    BY <2>1 DEF Wait
  <2>2. CASE Wait(q) # {}
    <3>1. request' = [request EXCEPT ![q].pc = "asleep", ![q].waits = Wait(q)]
      BY <1>3, <2>2 DEF turn
    <3>2. request[q] \in RequestState
      BY <1>1, HeldType
    <3>3. request'[q].pc = "asleep"
      BY <1>1, <3>1, <3>2 DEF Types, RequestState
    <3> QED
      BY <1>1, <3>3
  <2> QED
    BY <2>1, <2>2
<1>4. CASE wake(q)
  BY <1>4 DEF wake, IndInv, SleepCoversAll
<1>5. ASSUME NEW r \in Requests, NEW key \in Channels, Enter(r, key) PROVE FALSE
  BY <1>1, <1>2, <1>5, EnterEffect
<1>6. ASSUME NEW r \in Requests, NEW outcome \in Ended, Settle(r, outcome) PROVE FALSE
  BY <1>1, <1>2, <1>6 DEF Settle, Types, RequestState, Ended
<1>7. ASSUME NEW r \in Requests, RetryOrFail(r) PROVE FALSE
  BY <1>5, <1>6, <1>7, KeysAreChannels DEF RetryOrFail, Ended
<1>8. ASSUME NEW r \in Requests, r # q, turn(r) \/ wake(r) PROVE FALSE
  BY <1>1, <1>2, <1>6, <1>8 DEF turn, wake, Begin, Types, Ended
<1>9. ASSUME NEW r \in Requests, request' = [request EXCEPT ![r].pc = "direct"] PROVE FALSE
  BY <1>1, <1>9 DEF Types, RequestState
<1>10. ASSUME NEW r \in Requests, Respond(r) PROVE FALSE
  BY <1>5, <1>6, <1>7, <1>9, <1>10, KeysAreChannels
  DEF Respond, fetchHtmlViaMediaWikiApi, answered, networkError, blocked, rateLimited, otherError, Ended
<1>11. ASSUME NEW r \in Requests, fetchPortal(r) \/ apiRequest(r) PROVE FALSE
  BY <1>5, <1>11, KeysAreChannels DEF fetchPortal, apiRequest
<1>12. ASSUME NEW r \in Requests, portalTimeout(r) PROVE FALSE
  BY <1>1, <1>12 DEF portalTimeout, Types, RequestState
<1>13. ASSUME Time PROVE FALSE
  <2>1. PICK ch \in Channels : intervalPasses(ch) \/ cooldownPasses(ch)
    BY <1>13 DEF Time
  <2>2. PICK what \in {"interval", "cooldown"} : Elapsed(ch, what)
    BY <2>1 DEF intervalPasses, cooldownPasses
  <2>3. request'[q].pc = request[q].pc
    BY <1>1, <2>2, ElapsedEffect
  <2> QED
    BY <1>1, <2>3
<1> QED
  BY <1>3, <1>4, <1>8, <1>10, <1>11, <1>12, <1>13 DEF Next, Serve

\* Requests on one channel are spaced by the minimal interval.
THEOREM StartsSpaced == Spec => SpacedStarts
<1>1. IndInv /\ [Next]_vars => [\A q \in Requests : Begins(q) => ~recent[Channel(q)]]_vars
  BY BeginsInTime
<1> QED
  BY <1>1, Inductive, PTL DEF Spec, SpacedStarts

\* Nothing starts on a channel that cools down, the calls queued before the refusal included.
THEOREM CooldownsHold == Spec => CooldownRespected
<1>1. IndInv /\ [Next]_vars => [\A q \in Requests : Begins(q) => ~cooling[Channel(q)]]_vars
  BY BeginsInTime
<1> QED
  BY <1>1, Inductive, PTL DEF Spec, CooldownRespected
=============================================================================
