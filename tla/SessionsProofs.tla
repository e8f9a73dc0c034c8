---------------------------- MODULE SessionsProofs ----------------------------
(***************************************************************************)
(* What a session promises its user, for any requests, instances of the    *)
(* front ends, replicas and passwords: it outlives its own rotations, a    *)
(* repeated request has one effect, an ended session has none, and a token *)
(* proves the password of its account.                                     *)
(***************************************************************************)
EXTENDS MCSessions, Sequences, FiniteSetTheorems, TLAPS

-----------------------------------------------------------------------------
(***************************************************************************)
(* The session of a browser (BffSession).  A pair can be rotated again     *)
(* only when nothing that is older is on its way, because an access token  *)
(* outlives a request: so a response that is still to come brings back the *)
(* last pair at worst, and never one that is over.                         *)
(***************************************************************************)

BrowserTyped ==
    /\ Browser!TypeOK
    /\ expired \subseteq {g \in Browser!Pair : g < MaxRotations}
    /\ \A q \in Tab :
          /\ tab[q] # "idle" => host[q] \in Bff
          /\ tab[q] \in {"refresh", "wait", "retry"} => carried[q] \in expired
    /\ \A b \in Bff, g \in Browser!Pair : flight[b][g] \in {"flying", "rotated"} => g \in expired

\* a flight is in the air for those who wait for it
FlightsAreAwaited ==
    /\ \A q \in Tab : tab[q] = "wait" => flight[host[q]][carried[q]] = "flying"
    /\ \A b \in Bff, g \in Browser!Pair : flight[b][g] = "flying" =>
          \E q \in Tab : tab[q] = "wait" /\ host[q] = b /\ carried[q] = g

\* What the instances of the BFF still know is not older than it may be.
OnlyTheLastRotated ==
    /\ expired \subseteq 0..live
    /\ \A g \in Browser!Pair : rotated[g] = "none" <=> g >= live
    /\ \A b \in Bff, g \in Browser!Pair :
          /\ flight[b][g] = "rotated" => g < live
          /\ flight[b][g] # "refused"

\* A request on its way carries the pair that is live or the one before, and
\* its response brings the live one or nothing.
RequestsAreRecent ==
    \A q \in Tab :
        IF tab[q] = "idle" THEN carried[q] = NoSession /\ cookies[q] = Keep
        ELSE /\ tab[q] # "logout"
             /\ carried[q] \in Browser!Pair /\ carried[q] \in {live, live - 1}
             /\ rotated[carried[q]] # "lapsed"
             /\ cookies[q] # Keep =>
                   tab[q] \in {"retry", "reply"} /\ cookies[q] = live /\ carried[q] = live - 1

\* The jar lags behind by one pair at most, with the next one on its way to it;
\* and not at all once the live pair has expired.
JarIsRecent ==
    /\ jar \in Browser!Pair /\ jar \in {live, live - 1}
    /\ jar # live => \E q \in Tab : tab[q] \in {"retry", "reply"} /\ cookies[q] = live
    /\ live \in expired => jar = live /\ \A q \in Tab : carried[q] \in {live, NoSession}

BrowserInv ==
    /\ BrowserTyped
    /\ FlightsAreAwaited
    /\ Browser!Undisturbed =>
          /\ live \in Browser!Pair
          /\ OnlyTheLastRotated
          /\ RequestsAreRecent
          /\ JarIsRecent

LEMMA BrowserNames ==
    /\ NoSession \notin Browser!Pair /\ NoSession \notin Bff
    /\ Keep \notin Browser!Pair /\ Keep # NoSession
    /\ MaxRotations \in Nat
BY BrowserAssumption DEF Browser!CookieAssumption, Browser!RotationAssumption

LEMMA BrowserInitially == Browser!Init => BrowserInv
<1> SUFFICES ASSUME Browser!Init PROVE BrowserInv
    OBVIOUS
<1> USE BrowserNames DEF Browser!Init, Browser!Pair
<1>1. BrowserTyped
    <2>1. flight \in [Bff -> [Browser!Pair -> Browser!Result \union {"none", "flying"}]]
        OBVIOUS
    <2>2. \A b \in Bff, g \in Browser!Pair : flight[b][g] = "none"
        OBVIOUS
    <2> HIDE DEF Browser!Init
    <2>3. /\ jar = 0 /\ live = 0 /\ expired = {} /\ rotated = [g \in Browser!Pair |-> "none"]
          /\ host = [q \in Tab |-> NoSession] /\ carried = [q \in Tab |-> NoSession]
          /\ tab = [q \in Tab |-> "idle"] /\ cookies = [q \in Tab |-> Keep]
          /\ loggedOut = FALSE /\ slow = FALSE /\ lost = FALSE
        BY DEF Browser!Init
    <2>4. Browser!TypeOK
        <3> HIDE DEF Browser!Pair
        <3>1. 0 \in Browser!Pair
            BY DEF Browser!Pair
        <3>2. /\ host \in [Tab -> Bff \union {NoSession}]
              /\ carried \in [Tab -> Browser!Pair \union {NoSession}]
              /\ tab \in [Tab -> {"idle", "call", "logout", "refresh", "wait", "retry", "reply"}]
              /\ cookies \in [Tab -> Browser!Cookies]
              /\ rotated \in [Browser!Pair -> {"none", "live", "lapsed"}]
            BY <2>3 DEF Browser!Cookies
        <3> QED BY <2>1, <2>3, <3>1, <3>2 DEF Browser!TypeOK
    <2> QED BY <2>2, <2>3, <2>4 DEF BrowserTyped
<1>2. FlightsAreAwaited
    BY DEF FlightsAreAwaited
<1>3. live \in Browser!Pair /\ OnlyTheLastRotated
    BY DEF OnlyTheLastRotated
<1>4. RequestsAreRecent /\ JarIsRecent
    BY DEF RequestsAreRecent, JarIsRecent
<1> QED BY <1>1, <1>2, <1>3, <1>4 DEF BrowserInv

LEMMA BrowserSendKeeps ==
    ASSUME BrowserInv, NEW q \in Tab, Browser!Send(q)
    PROVE  BrowserInv'
<1> USE BrowserNames
    DEF BrowserInv, BrowserTyped, Browser!TypeOK, Browser!Send, Browser!Pair,
           Browser!Result, Browser!Cookies, Browser!api, Browser!history
<1>1. BrowserTyped'
    OBVIOUS
<1>2. FlightsAreAwaited'
    BY DEF FlightsAreAwaited
<1>3. ASSUME Browser!Undisturbed'
      PROVE  /\ live' \in Browser!Pair
             /\ OnlyTheLastRotated'
             /\ RequestsAreRecent'
             /\ JarIsRecent'
    <2> USE DEF Browser!Undisturbed
    <2>0. OnlyTheLastRotated /\ RequestsAreRecent /\ JarIsRecent /\ live \in Browser!Pair
        BY <1>3
    <2>1. live' \in Browser!Pair
        BY <1>3
    <2>2. OnlyTheLastRotated'
        BY <1>3 DEF OnlyTheLastRotated, RequestsAreRecent, JarIsRecent, FlightsAreAwaited
    <2>3. RequestsAreRecent'
        <3>1. rotated[jar] # "lapsed"
            <4>1. CASE jar = live
                BY <2>0, <4>1 DEF OnlyTheLastRotated
            <4>2. CASE jar # live
                <5>1. PICK w \in Tab : tab[w] \in {"retry", "reply"} /\ cookies[w] = live
                    BY <2>0, <4>2 DEF JarIsRecent
                <5>2. carried[w] = live - 1 /\ rotated[carried[w]] # "lapsed"
                    BY <2>0, <5>1 DEF RequestsAreRecent
                <5>3. jar = live - 1
                    BY <2>0, <4>2 DEF JarIsRecent
                <5> QED BY ONLY <5>2, <5>3
            <4> QED BY ONLY <4>1, <4>2
        <3>2. /\ jar \in Browser!Pair /\ jar \in {live, live - 1}
              /\ tab'[q] = "call" /\ carried'[q] = jar /\ cookies'[q] = Keep
              /\ rotated' = rotated /\ live' = live
              /\ \A p \in Tab \ {q} :
                    tab'[p] = tab[p] /\ carried'[p] = carried[p] /\ cookies'[p] = cookies[p]
            BY <1>3, <2>0 DEF JarIsRecent
        <3> QED BY ONLY <2>0, <3>1, <3>2 DEF RequestsAreRecent
    <2>4. JarIsRecent'
        BY <1>3 DEF OnlyTheLastRotated, RequestsAreRecent, JarIsRecent, FlightsAreAwaited
    <2> QED BY <2>1, <2>2, <2>3, <2>4
<1> QED BY <1>1, <1>2, <1>3

LEMMA BrowserCallKeeps ==
    ASSUME BrowserInv, NEW q \in Tab, Browser!Call(q)
    PROVE  BrowserInv'
<1> USE BrowserNames
    DEF BrowserInv, BrowserTyped, Browser!TypeOK, Browser!Call, Browser!Respond, Browser!Pair,
           Browser!Result, Browser!Cookies, Browser!api, Browser!history
<1>1. BrowserTyped'
    OBVIOUS
<1>2. FlightsAreAwaited'
    BY DEF FlightsAreAwaited
<1>3. ASSUME Browser!Undisturbed'
      PROVE  /\ live' \in Browser!Pair
             /\ OnlyTheLastRotated'
             /\ RequestsAreRecent'
             /\ JarIsRecent'
    <2> USE DEF Browser!Undisturbed
    <2>0. OnlyTheLastRotated /\ RequestsAreRecent /\ JarIsRecent /\ live \in Browser!Pair
        BY <1>3
    <2>1. live' \in Browser!Pair
        BY <1>3
    <2>2. OnlyTheLastRotated'
        BY <1>3 DEF OnlyTheLastRotated, RequestsAreRecent, JarIsRecent, FlightsAreAwaited
    <2>3. RequestsAreRecent'
        BY <1>3 DEF OnlyTheLastRotated, RequestsAreRecent, JarIsRecent, FlightsAreAwaited
    <2>4. JarIsRecent'
        BY <1>3 DEF OnlyTheLastRotated, RequestsAreRecent, JarIsRecent, FlightsAreAwaited
    <2> QED BY <2>1, <2>2, <2>3, <2>4
<1> QED BY <1>1, <1>2, <1>3

LEMMA BrowserLogOutKeeps ==
    ASSUME BrowserInv, NEW q \in Tab, Browser!LogOut(q)
    PROVE  BrowserInv'
<1> USE BrowserNames
    DEF BrowserInv, BrowserTyped, Browser!TypeOK, Browser!LogOut, Browser!Respond, Browser!Pair,
           Browser!Result, Browser!Cookies, Browser!api, Browser!history
<1>1. BrowserTyped'
    OBVIOUS
<1>2. FlightsAreAwaited'
    BY DEF FlightsAreAwaited
<1>3. ASSUME Browser!Undisturbed'
      PROVE  /\ live' \in Browser!Pair
             /\ OnlyTheLastRotated'
             /\ RequestsAreRecent'
             /\ JarIsRecent'
    <2> USE DEF Browser!Undisturbed
    <2>0. OnlyTheLastRotated /\ RequestsAreRecent /\ JarIsRecent /\ live \in Browser!Pair
        BY <1>3
    <2>1. live' \in Browser!Pair
        BY <1>3 DEF RequestsAreRecent
    <2>2. OnlyTheLastRotated'
        BY <1>3 DEF OnlyTheLastRotated, RequestsAreRecent, JarIsRecent, FlightsAreAwaited
    <2>3. RequestsAreRecent'
        BY <1>3 DEF OnlyTheLastRotated, RequestsAreRecent, JarIsRecent, FlightsAreAwaited
    <2>4. JarIsRecent'
        BY <1>3 DEF OnlyTheLastRotated, RequestsAreRecent, JarIsRecent, FlightsAreAwaited
    <2> QED BY <2>1, <2>2, <2>3, <2>4
<1> QED BY <1>1, <1>2, <1>3

LEMMA BrowserRetryKeeps ==
    ASSUME BrowserInv, NEW q \in Tab, Browser!Retry(q)
    PROVE  BrowserInv'
<1> USE BrowserNames
    DEF BrowserInv, BrowserTyped, Browser!TypeOK, Browser!Retry, Browser!Respond,
           Browser!RetriedCookies, Browser!Pair,
           Browser!Result, Browser!Cookies, Browser!api, Browser!history
<1>1. BrowserTyped'
    OBVIOUS
<1>2. FlightsAreAwaited'
    BY DEF FlightsAreAwaited
<1>3. ASSUME Browser!Undisturbed'
      PROVE  /\ live' \in Browser!Pair
             /\ OnlyTheLastRotated'
             /\ RequestsAreRecent'
             /\ JarIsRecent'
    <2> USE DEF Browser!Undisturbed
    <2>0. OnlyTheLastRotated /\ RequestsAreRecent /\ JarIsRecent /\ live \in Browser!Pair
        BY <1>3
    <2>1. live' \in Browser!Pair
        BY <1>3
    <2>2. OnlyTheLastRotated'
        BY <1>3 DEF OnlyTheLastRotated, RequestsAreRecent, JarIsRecent, FlightsAreAwaited
    <2>3. RequestsAreRecent'
        BY <1>3 DEF OnlyTheLastRotated, RequestsAreRecent, JarIsRecent, FlightsAreAwaited
    <2>4. JarIsRecent'
        BY <1>3 DEF OnlyTheLastRotated, RequestsAreRecent, JarIsRecent, FlightsAreAwaited
    <2> QED BY <2>1, <2>2, <2>3, <2>4
<1> QED BY <1>1, <1>2, <1>3

LEMMA BrowserDeliverKeeps ==
    ASSUME BrowserInv, NEW q \in Tab, Browser!Deliver(q)
    PROVE  BrowserInv'
<1> USE BrowserNames
    DEF BrowserInv, BrowserTyped, Browser!TypeOK, Browser!Deliver, Browser!Pair,
           Browser!Result, Browser!Cookies, Browser!api, Browser!history
<1>1. BrowserTyped'
    OBVIOUS
<1>2. FlightsAreAwaited'
    BY DEF FlightsAreAwaited
<1>3. ASSUME Browser!Undisturbed'
      PROVE  /\ live' \in Browser!Pair
             /\ OnlyTheLastRotated'
             /\ RequestsAreRecent'
             /\ JarIsRecent'
    <2> USE DEF Browser!Undisturbed
    <2>0. OnlyTheLastRotated /\ RequestsAreRecent /\ JarIsRecent /\ live \in Browser!Pair
        BY <1>3
    <2>1. live' \in Browser!Pair
        BY <1>3
    <2>2. OnlyTheLastRotated'
        BY <1>3 DEF OnlyTheLastRotated, RequestsAreRecent, JarIsRecent, FlightsAreAwaited
    <2>3. RequestsAreRecent'
        BY <1>3 DEF OnlyTheLastRotated, RequestsAreRecent, JarIsRecent, FlightsAreAwaited
    <2>4. JarIsRecent'
        BY <1>3 DEF OnlyTheLastRotated, RequestsAreRecent, JarIsRecent, FlightsAreAwaited
    <2> QED BY <2>1, <2>2, <2>3, <2>4
<1> QED BY <1>1, <1>2, <1>3

LEMMA BrowserForgetKeeps ==
    ASSUME BrowserInv, NEW b \in Bff, NEW g \in Browser!Pair, Browser!Forget(b, g)
    PROVE  BrowserInv'
<1> USE BrowserNames
    DEF BrowserInv, BrowserTyped, Browser!TypeOK, Browser!Forget, Browser!Pair,
           Browser!Result, Browser!Cookies, Browser!api, Browser!history
<1>1. BrowserTyped'
    OBVIOUS
<1>2. FlightsAreAwaited'
    BY DEF FlightsAreAwaited
<1>3. ASSUME Browser!Undisturbed'
      PROVE  /\ live' \in Browser!Pair
             /\ OnlyTheLastRotated'
             /\ RequestsAreRecent'
             /\ JarIsRecent'
    <2> USE DEF Browser!Undisturbed
    <2>0. OnlyTheLastRotated /\ RequestsAreRecent /\ JarIsRecent /\ live \in Browser!Pair
        BY <1>3
    <2>1. live' \in Browser!Pair
        BY <1>3
    <2>2. OnlyTheLastRotated'
        BY <1>3 DEF OnlyTheLastRotated, RequestsAreRecent, JarIsRecent, FlightsAreAwaited
    <2>3. RequestsAreRecent'
        BY <1>3 DEF OnlyTheLastRotated, RequestsAreRecent, JarIsRecent, FlightsAreAwaited
    <2>4. JarIsRecent'
        BY <1>3 DEF OnlyTheLastRotated, RequestsAreRecent, JarIsRecent, FlightsAreAwaited
    <2> QED BY <2>1, <2>2, <2>3, <2>4
<1> QED BY <1>1, <1>2, <1>3

LEMMA BrowserAccessExpiresKeeps ==
    ASSUME BrowserInv, NEW g \in Browser!Pair, Browser!AccessExpires(g)
    PROVE  BrowserInv'
<1> USE BrowserNames
    DEF BrowserInv, BrowserTyped, Browser!TypeOK, Browser!AccessExpires, Browser!Pair,
           Browser!Result, Browser!Cookies, Browser!api, Browser!history
<1>1. BrowserTyped'
    OBVIOUS
<1>2. FlightsAreAwaited'
    BY DEF FlightsAreAwaited
<1>3. ASSUME Browser!Undisturbed'
      PROVE  /\ live' \in Browser!Pair
             /\ OnlyTheLastRotated'
             /\ RequestsAreRecent'
             /\ JarIsRecent'
    <2> USE DEF Browser!Undisturbed
    <2>0. OnlyTheLastRotated /\ RequestsAreRecent /\ JarIsRecent /\ live \in Browser!Pair
        BY <1>3
    <2>1. live' \in Browser!Pair
        BY <1>3
    <2>2. OnlyTheLastRotated'
        BY <1>3 DEF OnlyTheLastRotated, RequestsAreRecent, JarIsRecent, FlightsAreAwaited
    <2>3. RequestsAreRecent'
        BY <1>3 DEF OnlyTheLastRotated, RequestsAreRecent, JarIsRecent, FlightsAreAwaited
    <2>4. JarIsRecent'
        BY <1>3 DEF OnlyTheLastRotated, RequestsAreRecent, JarIsRecent, FlightsAreAwaited
    <2> QED BY <2>1, <2>2, <2>3, <2>4
<1> QED BY <1>1, <1>2, <1>3

LEMMA BrowserTombstoneLapsesKeeps ==
    ASSUME BrowserInv, NEW g \in Browser!Pair, Browser!TombstoneLapses(g)
    PROVE  BrowserInv'
<1> USE BrowserNames
    DEF BrowserInv, BrowserTyped, Browser!TypeOK, Browser!TombstoneLapses, Browser!Pair,
           Browser!Result, Browser!Cookies, Browser!api, Browser!history
<1>1. BrowserTyped'
    OBVIOUS
<1>2. FlightsAreAwaited'
    BY DEF FlightsAreAwaited
<1>3. ASSUME Browser!Undisturbed'
      PROVE  /\ live' \in Browser!Pair
             /\ OnlyTheLastRotated'
             /\ RequestsAreRecent'
             /\ JarIsRecent'
    <2> USE DEF Browser!Undisturbed
    <2>0. OnlyTheLastRotated /\ RequestsAreRecent /\ JarIsRecent /\ live \in Browser!Pair
        BY <1>3
    <2>1. live' \in Browser!Pair
        BY <1>3
    <2>2. OnlyTheLastRotated'
        BY <1>3 DEF OnlyTheLastRotated, RequestsAreRecent, JarIsRecent, FlightsAreAwaited
    <2>3. RequestsAreRecent'
        <3>1. \A q \in Tab : carried[q] # g
            BY <1>3
        <3>2. \A h \in Browser!Pair : h # g => rotated'[h] = rotated[h]
            OBVIOUS
        <3> QED BY <1>3, <3>1, <3>2 DEF RequestsAreRecent
    <2>4. JarIsRecent'
        BY <1>3 DEF OnlyTheLastRotated, RequestsAreRecent, JarIsRecent, FlightsAreAwaited
    <2> QED BY <2>1, <2>2, <2>3, <2>4
<1> QED BY <1>1, <1>2, <1>3

\* what a request learns from a flight
LEMMA Outcomes ==
    ASSUME NEW g \in Browser!Pair, NEW r \in Browser!Result
    PROVE  /\ r = "rotated" => Browser!Apply(g, r)[1] = "retry" /\ Browser!Apply(g, r)[2] = g + 1
           /\ r = "refused" =>
                 Browser!Apply(g, r)[1] = "reply" /\ Browser!Apply(g, r)[2] = NoSession
           /\ r \in {"concurrent", "failed"} =>
                 Browser!Apply(g, r)[1] = "reply" /\ Browser!Apply(g, r)[2] = Keep
BY DEF Browser!Apply, Browser!Result

LEMMA BrowserJoinFlightKeeps ==
    ASSUME BrowserInv, NEW q \in Tab, Browser!JoinFlight(q)
    PROVE  BrowserInv'
<1> DEFINE g == carried[q]
           b == host[q]
           r == flight[b][g]
<1>1. /\ tab[q] = "refresh" /\ b \in Bff
      /\ g \in expired /\ g \in Browser!Pair /\ g + 1 \in Browser!Pair
    <2>1. tab[q] = "refresh"
        BY DEF Browser!JoinFlight
    <2>2. b \in Bff /\ g \in expired
        BY <2>1 DEF BrowserInv, BrowserTyped
    <2>3. g \in Browser!Pair /\ g < MaxRotations
        BY <2>2 DEF BrowserInv, BrowserTyped
    <2> QED BY <2>1, <2>2, <2>3, BrowserNames DEF Browser!Pair
<1>2. UNCHANGED <<jar, live, rotated, expired, host, carried, loggedOut, slow, lost>>
    BY DEF Browser!JoinFlight, Browser!api, Browser!history
<1>3. CASE r \in Browser!Result
    <2> DEFINE s == Browser!Apply(g, r)[1]
               c == Browser!Apply(g, r)[2]
    <2>1. /\ tab' = [tab EXCEPT ![q] = s] /\ cookies' = [cookies EXCEPT ![q] = c]
          /\ flight' = flight
        BY <1>3 DEF Browser!JoinFlight
    <2>2. /\ s \in {"retry", "reply"} /\ c \in Browser!Cookies
          /\ s = "retry" => r = "rotated" /\ c = g + 1
          /\ c # Keep => (c = NoSession /\ r = "refused") \/ s = "retry"
        BY <1>1, <1>3, Outcomes, BrowserNames DEF Browser!Result, Browser!Cookies
    <2> HIDE DEF s, c
    <2>3. BrowserTyped'
        BY <1>1, <1>2, <2>1, <2>2 DEF BrowserInv, BrowserTyped, Browser!TypeOK
    <2>4. FlightsAreAwaited'
        BY <1>1, <1>2, <2>1, <2>2
        DEF BrowserInv, BrowserTyped, Browser!TypeOK, FlightsAreAwaited
    <2>5. ASSUME Browser!Undisturbed'
          PROVE  /\ live' \in Browser!Pair
                 /\ OnlyTheLastRotated'
                 /\ RequestsAreRecent'
                 /\ JarIsRecent'
        <3>1. /\ live \in Browser!Pair
              /\ OnlyTheLastRotated /\ RequestsAreRecent /\ JarIsRecent
            BY <1>2, <2>5 DEF BrowserInv, Browser!Undisturbed
        <3>2. r = "rotated" => g = live - 1
            BY <1>1, <3>1 DEF OnlyTheLastRotated, RequestsAreRecent, Browser!Pair
        <3>3. c # Keep => s = "retry" /\ c = live
            BY <1>1, <2>2, <3>1, <3>2 DEF OnlyTheLastRotated, Browser!Pair
        <3>4. cookies[q] = Keep
            BY <1>1, <3>1 DEF RequestsAreRecent
        <3>5. live' \in Browser!Pair /\ OnlyTheLastRotated'
            BY <1>2, <2>1, <3>1 DEF OnlyTheLastRotated
        <3>6. RequestsAreRecent'
            BY <1>1, <1>2, <2>1, <2>2, <3>1, <3>2, <3>3
            DEF RequestsAreRecent, BrowserInv, BrowserTyped, Browser!TypeOK
        <3>7. JarIsRecent'
            BY <1>1, <1>2, <2>1, <2>2, <3>1
            DEF JarIsRecent, BrowserInv, BrowserTyped, Browser!TypeOK
        <3> QED BY <3>5, <3>6, <3>7
    <2> QED BY <2>3, <2>4, <2>5 DEF BrowserInv
<1>4. CASE r \notin Browser!Result
    <2>1. /\ tab' = [tab EXCEPT ![q] = "wait"] /\ cookies' = cookies
          /\ flight' = [flight EXCEPT ![b][g] = "flying"]
        BY <1>4 DEF Browser!JoinFlight
    <2>2. /\ flight' \in [Bff -> [Browser!Pair -> Browser!Result \union {"none", "flying"}]]
          /\ flight'[b][g] = "flying"
          /\ \A d \in Bff, h \in Browser!Pair : <<d, h>> # <<b, g>> => flight'[d][h] = flight[d][h]
        BY <1>1, <2>1 DEF BrowserInv, BrowserTyped, Browser!TypeOK
    <2>3. BrowserTyped'
        BY <1>1, <1>2, <2>1, <2>2 DEF BrowserInv, BrowserTyped, Browser!TypeOK
    <2>4. FlightsAreAwaited'
        <3>1. ASSUME NEW p \in Tab, tab'[p] = "wait" PROVE flight'[host'[p]][carried'[p]] = "flying"
            <4>1. CASE p = q
                BY <1>2, <2>2, <4>1
            <4>2. CASE p # q
                <5>1. tab[p] = "wait" /\ flight[host[p]][carried[p]] = "flying"
                    BY <2>1, <3>1, <4>2
                    DEF BrowserInv, BrowserTyped, Browser!TypeOK, FlightsAreAwaited
                <5>2. host[p] \in Bff /\ carried[p] \in Browser!Pair
                    BY <5>1 DEF BrowserInv, BrowserTyped, Browser!TypeOK
                <5> QED BY <1>2, <2>2, <5>1, <5>2
            <4> QED BY <4>1, <4>2
        <3>2. ASSUME NEW d \in Bff, NEW h \in Browser!Pair, flight'[d][h] = "flying"
              PROVE  \E p \in Tab : tab'[p] = "wait" /\ host'[p] = d /\ carried'[p] = h
            <4>1. CASE <<d, h>> = <<b, g>>
                BY <1>1, <1>2, <2>1, <4>1 DEF BrowserInv, BrowserTyped, Browser!TypeOK
            <4>2. CASE <<d, h>> # <<b, g>>
                <5>1. PICK p \in Tab : tab[p] = "wait" /\ host[p] = d /\ carried[p] = h
                    BY <2>2, <3>2, <4>2 DEF BrowserInv, FlightsAreAwaited
                <5> QED BY <1>2, <2>1, <5>1 DEF BrowserInv, BrowserTyped, Browser!TypeOK
            <4> QED BY <4>1, <4>2
        <3> QED BY <3>1, <3>2 DEF FlightsAreAwaited
    <2>5. ASSUME Browser!Undisturbed'
          PROVE  /\ live' \in Browser!Pair
                 /\ OnlyTheLastRotated'
                 /\ RequestsAreRecent'
                 /\ JarIsRecent'
        <3>1. /\ live \in Browser!Pair
              /\ OnlyTheLastRotated /\ RequestsAreRecent /\ JarIsRecent
            BY <1>2, <2>5 DEF BrowserInv, Browser!Undisturbed
        <3>2. OnlyTheLastRotated'
            <4>1. \A d \in Bff, h \in Browser!Pair :
                     flight'[d][h] = flight[d][h] \/ flight'[d][h] = "flying"
                BY <2>2
            <4> QED BY <1>2, <3>1, <4>1 DEF OnlyTheLastRotated
        <3>3. RequestsAreRecent'
            BY <1>1, <1>2, <2>1, <3>1
            DEF RequestsAreRecent, BrowserInv, BrowserTyped, Browser!TypeOK
        <3>4. JarIsRecent'
            BY <1>1, <1>2, <2>1, <3>1 DEF JarIsRecent, BrowserInv, BrowserTyped, Browser!TypeOK
        <3> QED BY <1>2, <3>1, <3>2, <3>3, <3>4
    <2> QED BY <2>3, <2>4, <2>5 DEF BrowserInv
<1> QED BY <1>3, <1>4

\* All who wait for a flight go on with what it brought, and nobody else.
LEMMA Landing ==
    ASSUME BrowserInv, NEW b \in Bff, NEW g \in Browser!Pair, flight[b][g] = "flying",
           NEW r \in Browser!Result, Browser!Land(b, g, r),
           UNCHANGED <<jar, expired, host, carried, loggedOut, slow>>,
           live' \in Browser!Pair \union {NoSession},
           rotated' \in [Browser!Pair -> {"none", "live", "lapsed"}],
           lost' \in BOOLEAN
    PROVE  /\ BrowserTyped' /\ FlightsAreAwaited'
           /\ flight'[b][g] = r
           /\ \A d \in Bff, h \in Browser!Pair : <<d, h>> # <<b, g>> => flight'[d][h] = flight[d][h]
           /\ \E q \in Tab : tab[q] = "wait" /\ host[q] = b /\ carried[q] = g
           /\ \A q \in Tab :
                 IF tab[q] = "wait" /\ host[q] = b /\ carried[q] = g
                    THEN /\ r = "rotated" => tab'[q] = "retry" /\ cookies'[q] = g + 1
                         /\ r = "refused" => tab'[q] = "reply" /\ cookies'[q] = NoSession
                         /\ r \in {"concurrent", "failed"} => tab'[q] = "reply" /\ cookies'[q] = Keep
                    ELSE tab'[q] = tab[q] /\ cookies'[q] = cookies[q]
<1> DEFINE waiting(q) == tab[q] = "wait" /\ host[q] = b /\ carried[q] = g
<1>0. g \in expired /\ g + 1 \in Browser!Pair
    BY BrowserNames DEF BrowserInv, BrowserTyped, Browser!Pair
<1>1. /\ flight' \in [Bff -> [Browser!Pair -> Browser!Result \union {"none", "flying"}]]
      /\ flight'[b][g] = r
      /\ \A d \in Bff, h \in Browser!Pair : <<d, h>> # <<b, g>> => flight'[d][h] = flight[d][h]
    BY DEF BrowserInv, BrowserTyped, Browser!TypeOK, Browser!Land
<1>2. \E q \in Tab : waiting(q)
    BY DEF BrowserInv, FlightsAreAwaited
<1>3. /\ tab' = [q \in Tab |-> IF waiting(q) THEN Browser!Apply(g, r)[1] ELSE tab[q]]
      /\ cookies' = [q \in Tab |-> IF waiting(q) THEN Browser!Apply(g, r)[2] ELSE cookies[q]]
    BY DEF Browser!Land
<1>4. ASSUME NEW q \in Tab
      PROVE  IF waiting(q)
                THEN /\ r = "rotated" => tab'[q] = "retry" /\ cookies'[q] = g + 1
                     /\ r = "refused" => tab'[q] = "reply" /\ cookies'[q] = NoSession
                     /\ r \in {"concurrent", "failed"} => tab'[q] = "reply" /\ cookies'[q] = Keep
                ELSE tab'[q] = tab[q] /\ cookies'[q] = cookies[q]
    BY <1>3, Outcomes
<1>5. /\ tab' \in [Tab -> {"idle", "call", "logout", "refresh", "wait", "retry", "reply"}]
      /\ cookies' \in [Tab -> Browser!Cookies]
    <2>1. \A q \in Tab : tab'[q] \in {"idle", "call", "logout", "refresh", "wait", "retry", "reply"}
                            /\ cookies'[q] \in Browser!Cookies
        BY <1>0, <1>4
        DEF BrowserInv, BrowserTyped, Browser!TypeOK, Browser!Result, Browser!Cookies
    <2> QED BY <1>3, <2>1
<1>6. BrowserTyped'
    <2>1. \A q \in Tab : tab'[q] = "retry" => cookies'[q] = carried'[q] + 1
        BY <1>4 DEF BrowserInv, BrowserTyped, Browser!TypeOK, Browser!Result
    <2>2. Browser!TypeOK'
        BY <1>1, <1>5, <2>1 DEF BrowserInv, BrowserTyped, Browser!TypeOK
    <2>3. \A q \in Tab : /\ tab'[q] # "idle" => host'[q] \in Bff
                         /\ tab'[q] \in {"refresh", "wait", "retry"} => carried'[q] \in expired'
        BY <1>0, <1>4 DEF BrowserInv, BrowserTyped, Browser!Result
    <2>4. \A d \in Bff, h \in Browser!Pair : flight'[d][h] \in {"flying", "rotated"} => h \in expired'
        BY <1>0, <1>1 DEF BrowserInv, BrowserTyped
    <2> QED BY <2>2, <2>3, <2>4 DEF BrowserInv, BrowserTyped
<1>7. FlightsAreAwaited'
    <2>1. ASSUME NEW p \in Tab, tab'[p] = "wait" PROVE flight'[host'[p]][carried'[p]] = "flying"
        <3>1. tab[p] = "wait" /\ ~waiting(p)
            BY <1>4, <2>1 DEF Browser!Result
        <3>2. flight[host[p]][carried[p]] = "flying" /\ host[p] \in Bff /\ carried[p] \in Browser!Pair
            BY <3>1 DEF BrowserInv, BrowserTyped, Browser!TypeOK, FlightsAreAwaited
        <3> QED BY <1>1, <3>1, <3>2
    <2>2. ASSUME NEW d \in Bff, NEW h \in Browser!Pair, flight'[d][h] = "flying"
          PROVE  \E p \in Tab : tab'[p] = "wait" /\ host'[p] = d /\ carried'[p] = h
        <3>1. <<d, h>> # <<b, g>>
            BY <1>1, <2>2 DEF Browser!Result
        <3>2. PICK p \in Tab : tab[p] = "wait" /\ host[p] = d /\ carried[p] = h
            BY <1>1, <2>2, <3>1 DEF BrowserInv, FlightsAreAwaited
        <3> QED BY <1>4, <3>1, <3>2
    <2> QED BY <2>1, <2>2 DEF FlightsAreAwaited
<1> QED BY <1>1, <1>2, <1>4, <1>6, <1>7

LEMMA BrowserPerformRefreshKeeps ==
    ASSUME BrowserInv, NEW b \in Bff, NEW g \in Browser!Pair, Browser!PerformRefresh(b, g)
    PROVE  BrowserInv'
<1>0. /\ flight[b][g] = "flying"
      /\ UNCHANGED <<jar, expired, host, carried, loggedOut, slow>>
    BY DEF Browser!PerformRefresh
<1>1. g \in expired /\ g + 1 \in Browser!Pair
    BY <1>0, BrowserNames DEF BrowserInv, BrowserTyped, Browser!Pair
<1>2. CASE Browser!Land(b, g, "failed") /\ UNCHANGED <<live, rotated, lost>>
    <2>1. "failed" \in Browser!Result
        BY DEF Browser!Result
    <2>2. /\ live \in Browser!Pair \union {NoSession} /\ lost \in BOOLEAN
          /\ rotated \in [Browser!Pair -> {"none", "live", "lapsed"}]
        BY DEF BrowserInv, BrowserTyped, Browser!TypeOK
    <2>3. /\ BrowserTyped' /\ FlightsAreAwaited'
          /\ flight'[b][g] = "failed"
          /\ \A d \in Bff, h \in Browser!Pair : <<d, h>> # <<b, g>> => flight'[d][h] = flight[d][h]
          /\ \A q \in Tab :
                 IF tab[q] = "wait" /\ host[q] = b /\ carried[q] = g
                    THEN tab'[q] = "reply" /\ cookies'[q] = Keep
                    ELSE tab'[q] = tab[q] /\ cookies'[q] = cookies[q]
        BY <1>0, <1>2, <2>1, <2>2, Landing
    <2>4. ASSUME Browser!Undisturbed'
          PROVE  /\ live' \in Browser!Pair
                 /\ OnlyTheLastRotated'
                 /\ RequestsAreRecent'
                 /\ JarIsRecent'
        <3>1. /\ live \in Browser!Pair
              /\ OnlyTheLastRotated /\ RequestsAreRecent /\ JarIsRecent
            BY <1>0, <1>2, <2>4 DEF BrowserInv, Browser!Undisturbed
        <3>2. OnlyTheLastRotated'
            <4>1. \A d \in Bff, h \in Browser!Pair :
                     flight'[d][h] = flight[d][h] \/ flight'[d][h] = "failed"
                BY <2>3
            <4> QED BY <1>0, <1>2, <3>1, <4>1 DEF OnlyTheLastRotated
        <3>3. RequestsAreRecent'
            BY <1>0, <1>2, <2>3, <3>1 DEF RequestsAreRecent
        <3>4. JarIsRecent'
            BY <1>0, <1>2, <2>3, <3>1 DEF JarIsRecent
        <3> QED BY <1>2, <3>1, <3>2, <3>3, <3>4
    <2> QED BY <2>3, <2>4 DEF BrowserInv
<1>3. CASE /\ live' = Browser!Rotate(g).live
           /\ rotated' = [rotated EXCEPT ![g] = IF live = g THEN "live" ELSE @]
           /\ \/ Browser!Land(b, g, Browser!Rotate(g).result) /\ UNCHANGED lost
              \/ Browser!Land(b, g, "failed") /\ lost' = TRUE
    <2> DEFINE r == Browser!Rotate(g).result
    <2>1. /\ live = g => r = "rotated" /\ live' = g + 1
          /\ live # g /\ rotated[g] = "live" => r = "concurrent" /\ live' = live
          /\ live # g /\ rotated[g] # "live" => r = "refused" /\ live' = NoSession
        BY <1>3 DEF Browser!Rotate
    <2>2. r \in Browser!Result /\ "failed" \in Browser!Result
        BY <2>1 DEF Browser!Result
    <2> HIDE DEF r
    <2>3. /\ live' \in Browser!Pair \union {NoSession}
          /\ rotated' \in [Browser!Pair -> {"none", "live", "lapsed"}]
          /\ \A h \in Browser!Pair : rotated'[h] = IF h = g /\ live = g THEN "live" ELSE rotated[h]
        BY <1>1, <1>3, <2>1 DEF BrowserInv, BrowserTyped, Browser!TypeOK
    <2>4. CASE Browser!Land(b, g, "failed") /\ lost' = TRUE
        <3>1. BrowserTyped' /\ FlightsAreAwaited'
            BY <1>0, <2>2, <2>3, <2>4, Landing
        <3> QED BY <2>4, <3>1 DEF BrowserInv, Browser!Undisturbed
    <2>5. CASE Browser!Land(b, g, r) /\ UNCHANGED lost
        <3>1. lost \in BOOLEAN
            BY DEF BrowserInv, BrowserTyped, Browser!TypeOK
        <3>2. /\ BrowserTyped' /\ FlightsAreAwaited'
              /\ flight'[b][g] = r
              /\ \A d \in Bff, h \in Browser!Pair :
                    <<d, h>> # <<b, g>> => flight'[d][h] = flight[d][h]
              /\ \E q \in Tab : tab[q] = "wait" /\ host[q] = b /\ carried[q] = g
              /\ \A q \in Tab :
                    IF tab[q] = "wait" /\ host[q] = b /\ carried[q] = g
                       THEN /\ r = "rotated" => tab'[q] = "retry" /\ cookies'[q] = g + 1
                            /\ r = "refused" => tab'[q] = "reply" /\ cookies'[q] = NoSession
                            /\ r \in {"concurrent", "failed"} =>
                                  tab'[q] = "reply" /\ cookies'[q] = Keep
                       ELSE tab'[q] = tab[q] /\ cookies'[q] = cookies[q]
            BY <1>0, <2>2, <2>3, <2>5, <3>1, Landing
        <3>3. ASSUME Browser!Undisturbed'
              PROVE  /\ live' \in Browser!Pair
                     /\ OnlyTheLastRotated'
                     /\ RequestsAreRecent'
                     /\ JarIsRecent'
            <4>1. /\ live \in Browser!Pair
                  /\ OnlyTheLastRotated /\ RequestsAreRecent /\ JarIsRecent
                BY <1>0, <2>5, <3>3 DEF BrowserInv, Browser!Undisturbed
            <4>2. PICK w \in Tab : tab[w] = "wait" /\ host[w] = b /\ carried[w] = g
                BY <3>2
            <4>3. rotated[g] # "lapsed" /\ g \in {live, live - 1}
                BY <4>1, <4>2 DEF RequestsAreRecent
            <4>4. CASE live = g
                \* all that is on its way carries the pair that is rotated
                <5>1. /\ r = "rotated" /\ live' = g + 1
                      /\ jar = g /\ \A q \in Tab : carried[q] \in {g, NoSession}
                    BY <1>1, <2>1, <4>1, <4>4 DEF JarIsRecent
                <5>2. OnlyTheLastRotated'
                    <6>1. \A d \in Bff, h \in Browser!Pair :
                             flight'[d][h] = flight[d][h] \/ (h = g /\ flight'[d][h] = "rotated")
                        BY <3>2, <5>1
                    <6>2. expired' \subseteq 0..live'
                        BY <1>0, <4>1, <4>4, <5>1 DEF OnlyTheLastRotated, Browser!Pair
                    <6>3. \A h \in Browser!Pair : rotated'[h] = "none" <=> h >= live'
                        BY <2>3, <4>1, <4>4, <5>1 DEF OnlyTheLastRotated, Browser!Pair
                    <6>4. \A d \in Bff, h \in Browser!Pair :
                             (flight'[d][h] = "rotated" => h < live') /\ flight'[d][h] # "refused"
                        BY <4>1, <4>4, <5>1, <6>1 DEF OnlyTheLastRotated, Browser!Pair
                    <6> QED BY <6>2, <6>3, <6>4 DEF OnlyTheLastRotated
                <5>3. \A q \in Tab : cookies[q] = Keep
                    BY <4>1, <4>4, <5>1, BrowserNames DEF RequestsAreRecent, Browser!Pair
                <5>4. rotated'[g] = "live"
                    BY <2>3, <4>4
                <5>5. RequestsAreRecent'
                    BY <1>0, <1>1, <3>2, <4>1, <4>4, <5>1, <5>3, <5>4, BrowserNames
                    DEF RequestsAreRecent, Browser!Pair
                <5>6. live' \notin expired'
                    BY <1>0, <4>1, <4>4, <5>1 DEF OnlyTheLastRotated, Browser!Pair
                <5>7. JarIsRecent'
                    BY <1>0, <1>1, <3>2, <4>2, <5>1, <5>6 DEF JarIsRecent, Browser!Pair
                <5> QED BY <1>1, <5>1, <5>2, <5>5, <5>7
            <4>5. CASE live # g
                <5>1. r = "concurrent" /\ UNCHANGED <<live, rotated>>
                    <6>1. rotated[g] = "live"
                        BY <4>1, <4>3, <4>5
                        DEF OnlyTheLastRotated, BrowserInv, BrowserTyped, Browser!TypeOK, Browser!Pair
                    <6> QED BY <1>3, <2>1, <4>5, <6>1
                    DEF BrowserInv, BrowserTyped, Browser!TypeOK
                <5>2. OnlyTheLastRotated'
                    <6>1. \A d \in Bff, h \in Browser!Pair :
                             flight'[d][h] = flight[d][h] \/ flight'[d][h] = "concurrent"
                        BY <3>2, <5>1
                    <6> QED BY <1>0, <4>1, <5>1, <6>1 DEF OnlyTheLastRotated
                <5>3. RequestsAreRecent'
                    BY <1>0, <3>2, <4>1, <5>1 DEF RequestsAreRecent
                <5>4. JarIsRecent'
                    BY <1>0, <3>2, <4>1, <5>1 DEF JarIsRecent
                <5> QED BY <4>1, <5>1, <5>2, <5>3, <5>4
            <4> QED BY <4>4, <4>5
        <3> QED BY <3>2, <3>3 DEF BrowserInv
    <2> QED BY <1>3, <2>4, <2>5 DEF r
<1> QED BY <1>2, <1>3 DEF Browser!PerformRefresh

LEMMA BrowserStep == BrowserInv /\ [Browser!Next]_Browser!vars => BrowserInv'
<1> SUFFICES ASSUME BrowserInv, [Browser!Next]_Browser!vars PROVE BrowserInv'
    OBVIOUS
<1>1. ASSUME NEW q \in Tab,
             \/ Browser!Send(q) \/ Browser!Call(q) \/ Browser!LogOut(q)
             \/ Browser!JoinFlight(q) \/ Browser!Retry(q) \/ Browser!Deliver(q)
      PROVE  BrowserInv'
    BY <1>1, BrowserSendKeeps, BrowserCallKeeps, BrowserLogOutKeeps, BrowserJoinFlightKeeps,
       BrowserRetryKeeps, BrowserDeliverKeeps
<1>2. ASSUME NEW b \in Bff, NEW g \in Browser!Pair, Browser!PerformRefresh(b, g) \/ Browser!Forget(b, g)
      PROVE  BrowserInv'
    BY <1>2, BrowserPerformRefreshKeeps, BrowserForgetKeeps
<1>3. ASSUME NEW g \in Browser!Pair, Browser!AccessExpires(g) \/ Browser!TombstoneLapses(g)
      PROVE  BrowserInv'
    BY <1>3, BrowserAccessExpiresKeeps, BrowserTombstoneLapsesKeeps
<1>4. ASSUME UNCHANGED Browser!vars PROVE BrowserInv'
    <2>1. UNCHANGED <<jar, live, rotated, expired, flight, host, carried, tab, cookies,
                      loggedOut, slow, lost>>
        BY <1>4 DEF Browser!vars, Browser!api, Browser!history
    <2>2. BrowserTyped' /\ FlightsAreAwaited'
        BY <2>1 DEF BrowserInv, BrowserTyped, FlightsAreAwaited, Browser!TypeOK
    <2>3. UNCHANGED <<OnlyTheLastRotated, RequestsAreRecent, JarIsRecent, Browser!Undisturbed>>
        BY <2>1 DEF OnlyTheLastRotated, RequestsAreRecent, JarIsRecent, Browser!Undisturbed
    <2> QED BY <2>1, <2>2, <2>3 DEF BrowserInv
<1> QED BY <1>1, <1>2, <1>3, <1>4 DEF Browser!Next

\* The session of a browser keeps its inductive invariant, for any requests at
\* once, any instances of the BFF and any number of rotations.
THEOREM BrowserInvariant == Browser!Spec => []BrowserInv
BY BrowserInitially, BrowserStep, PTL DEF Browser!Spec

\* Nobody is logged out by his own requests, their order, the instances they
\* reach or calls that fail before they have an effect, and when all responses
\* are there the jar holds the pair the API expects (refreshAuthTokens, proxy).
THEOREM SessionSurvivesAlways == Browser!Spec => []SessionSurvives
<1>1. BrowserInv => SessionSurvives
    BY BrowserNames DEF BrowserInv, BrowserTyped, JarIsRecent, SessionSurvives,
        Browser!SessionSurvives, Browser!JarIsCurrent
<1> QED BY <1>1, BrowserInvariant, PTL

-----------------------------------------------------------------------------
(***************************************************************************)
(* The way of a request (Gateway).  What must hold of a request says so of *)
(* its record, of the effects of its handler and of the accounts, which    *)
(* others change while it waits: their versions only grow.                 *)
(***************************************************************************)

Carried ==
    [step : Way!Steps, app : Way!App, path : Way!Path, size : Sizes, read : Nat,
     declared : BOOLEAN, sameOrigin : BOOLEAN, token : Way!Session, rotated : BOOLEAN,
     status : Way!Status, cookies : Way!Session \union {Keep}]

WayTyped ==
    /\ accounts \in [Way!App -> [version : Way!Version, active : BOOLEAN]]
    /\ held \in [Way!App -> Way!Session]
    /\ request \in [Visit -> Carried]
    /\ DOMAIN runs = Visit
    /\ ended \in [Way!App -> Way!Version] /\ stale \subseteq Visit

\* what the handler gets is the whole body, and no more than the limit
BodyFits(q) ==
    /\ q.read <= q.size /\ q.read <= MaxBody
    /\ q.step \in {"call", "guard", "validate", "handle", "response", "refresh"} => q.read = q.size

\* A request has had no effect before it was handled, and none when it is to be
\* repeated or its refusal is reported.
EffectIsTold(q, e) ==
    /\ e = <<>> \/ (e = <<q.size>> /\ q.size <= MaxBody)
    /\ q.step \notin {"response", "reply", "done"} => e = <<>>
    /\ q.step \in {"response", "reply", "done"} =>
          /\ q.status \in {"401", "403", "404", "409", "413"} => e = <<>>
          /\ q.status = "ok" /\ Way!Operation(q.path) # "logout" => e # <<>>
    /\ q.step = "logout" => Way!Operation(q.path) = "logout"

\* a session is as old as its account at most
Began(v, acc, a) == v # NoSession /\ v # Keep => v <= acc[a].version

\* Behind a guard a request is in a session of the guard's audience, and one
\* that has ended the sessions of its account has ended its own.
SessionFits(q, acc) ==
    /\ Began(q.token, acc, q.app) /\ Began(q.cookies, acc, q.app)
    /\ q.step = "validate" => q.token # NoSession /\ q.app = Way!Audience(q.path)
    /\ q.step = "handle" =>
          \/ Way!Audience(q.path) = "none"
          \/ Way!IsOptional(q.path) /\ q.token = NoSession
          \/ q.token # NoSession /\ q.app = Way!Audience(q.path)
    /\ /\ Way!Operation(q.path) = "end" /\ q.status = "ok"
       /\ q.step \in {"response", "reply", "done"}
       => q.token # NoSession /\ q.app = q.path[1] /\ q.token < acc[q.app].version

\* no handler is reached in a session that was over when the request was sent
StaleIsRefused(q, e, acc) ==
    /\ q.step # "idle"
    /\ q.token # NoSession =>
          /\ q.token < acc[q.app].version
          /\ Way!Audience(q.path) # "none" => q.step # "handle" /\ e = <<>>

Sound(q, e, acc, old) ==
    /\ BodyFits(q)
    /\ EffectIsTold(q, e)
    /\ SessionFits(q, acc)
    /\ old => StaleIsRefused(q, e, acc)

WayInv ==
    /\ WayTyped
    /\ \A r \in Visit : Sound(request[r], runs[r], accounts, r \in stale)
    /\ \A a \in Way!App : Began(held[a], accounts, a) /\ ended[a] <= accounts[a].version

LEMMA WayNames ==
    /\ 0 \in Sizes /\ Sizes \subseteq Nat /\ MaxBody \in Nat /\ NoSession \notin Way!Version
    /\ Keep \notin Way!Version /\ Keep # NoSession /\ Way!Version \subseteq Nat /\ 0 \in Way!Version
BY WayAssumption DEF Way!BodyAssumption, Way!NameAssumption, Way!Version

LEMMA Paths ==
    \A p \in Way!Path :
        /\ Way!Audience(p) \in {"users", "admins", "none"}
        /\ Way!Operation(p) \in {"me", "end"} => Way!Audience(p) = p[1] /\ p[1] \in Way!App
        /\ Way!IsOptional(p) => Way!Audience(p) = "users" /\ Way!Operation(p) = "home"
BY DEF Way!Path, Way!App, Way!Audience, Way!Operation, Way!IsOptional

LEMMA FreshIsCarried ==
    LET f == Way!Fresh IN
    /\ f \in Carried
    /\ f.step = "idle" /\ f.read = 0 /\ f.size = 0 /\ f.token = NoSession
    /\ f.status = "none" /\ f.cookies = Keep
<1>1. <<"views", "home">> \in Way!Path
    BY DEF Way!Path
<1>2. /\ "users" \in Way!App /\ "idle" \in Way!Steps /\ "none" \in Way!Status
      /\ NoSession \in Way!Session /\ 0 \in Nat
    BY DEF Way!App, Way!Session, Way!Steps, Way!Status
<1> QED BY <1>1, <1>2, WayNames DEF Way!Fresh, Carried

LEMMA WayInitially == Way!Init => WayInv
<1> SUFFICES ASSUME Way!Init PROVE WayInv
    OBVIOUS
<1> DEFINE f == Way!Fresh
<1>1. /\ f \in Carried
      /\ f.step = "idle" /\ f.read = 0 /\ f.size = 0 /\ f.token = NoSession /\ f.cookies = Keep
    BY FreshIsCarried
<1> HIDE DEF f
<1>2. /\ accounts = [a \in Way!App |-> [version |-> 0, active |-> TRUE]]
      /\ held \in [Way!App -> {0, NoSession}]
      /\ request = [r \in Visit |-> f] /\ runs = [r \in Visit |-> <<>>]
      /\ ended = [a \in Way!App |-> 0] /\ stale = {}
    BY DEF Way!Init, f
<1>3. WayTyped
    <2>1. accounts \in [Way!App -> [version : Way!Version, active : BOOLEAN]]
        BY <1>2, WayNames
    <2>2. /\ held \in [Way!App -> Way!Session] /\ request \in [Visit -> Carried]
          /\ DOMAIN runs = Visit /\ ended \in [Way!App -> Way!Version] /\ stale \subseteq Visit
        BY <1>1, <1>2, WayNames DEF Way!Session
    <2> QED BY <2>1, <2>2 DEF WayTyped
<1>4. \A r \in Visit : Sound(f, <<>>, accounts, FALSE)
    BY <1>1, WayNames DEF Sound, BodyFits, EffectIsTold, SessionFits, Began
<1>5. \A a \in Way!App : Began(held[a], accounts, a) /\ ended[a] <= accounts[a].version
    BY <1>2, WayNames DEF Began
<1>6. \A r \in Visit : r \notin stale /\ request[r] = f /\ runs[r] = <<>>
    BY <1>2
<1>7. \A r \in Visit : Sound(request[r], runs[r], accounts, r \in stale)
    BY <1>4, <1>6 DEF Sound
<1> QED BY <1>3, <1>5, <1>7 DEF WayInv

-----------------------------------------------------------------------------
\* What a step makes of request r: it is at s, n of its body are read, it
\* carries t, and it is answered with a status and cookies.
Becomes(r, s, n, t, status, c) ==
    /\ request' \in [Visit -> Carried]
    /\ \A o \in Visit \ {r} : request'[o] = request[o]
    /\ request'[r].app = request[r].app /\ request'[r].path = request[r].path
    /\ request'[r].size = request[r].size
    /\ request'[r].step = s /\ request'[r].read = n /\ request'[r].token = t
    /\ request'[r].status = status /\ request'[r].cookies = c

LEMMA Replaced ==
    ASSUME WayTyped, NEW r \in Visit, NEW p \in Carried, request' = [request EXCEPT ![r] = p],
           p.app = request[r].app, p.path = request[r].path, p.size = request[r].size
    PROVE  Becomes(r, p.step, p.read, p.token, p.status, p.cookies)
BY DEF WayTyped, Becomes

LEMMA GoesTo ==
    ASSUME WayTyped, NEW r \in Visit, NEW s \in Way!Steps, Way!GoTo(r, s)
    PROVE  LET q == request[r] IN Becomes(r, s, q.read, q.token, q.status, q.cookies)
<1> DEFINE q == request[r]
           p == [q EXCEPT !.step = s]
<1>1. request' = [request EXCEPT ![r] = p]
    BY DEF Way!GoTo
<1>2. q \in Carried
    BY DEF WayTyped
<1> HIDE DEF q
<1>3. /\ p \in Carried /\ p.app = q.app /\ p.path = q.path /\ p.size = q.size
      /\ p.step = s /\ p.read = q.read /\ p.token = q.token /\ p.status = q.status
      /\ p.cookies = q.cookies
    BY <1>2 DEF Carried
<1> HIDE DEF p
<1>4. Becomes(r, p.step, p.read, p.token, p.status, p.cookies)
    BY <1>1, <1>3, Replaced DEF q
<1> QED BY <1>3, <1>4 DEF q

LEMMA Replies ==
    ASSUME WayTyped, NEW r \in Visit, NEW st \in Way!Status, NEW c \in Way!Session \union {Keep},
           Way!Reply(r, st, c)
    PROVE  LET q == request[r] IN Becomes(r, "reply", q.read, q.token, st, c)
<1> DEFINE q == request[r]
           p == [q EXCEPT !.step = "reply", !.status = st, !.cookies = c]
<1>1. request' = [request EXCEPT ![r] = p]
    BY DEF Way!Reply
<1>2. q \in Carried /\ "reply" \in Way!Steps
    BY DEF WayTyped, Way!Steps
<1> HIDE DEF q
<1>3. /\ p \in Carried /\ p.app = q.app /\ p.path = q.path /\ p.size = q.size
      /\ p.step = "reply" /\ p.read = q.read /\ p.token = q.token /\ p.status = st
      /\ p.cookies = c
    BY <1>2 DEF Carried
<1> HIDE DEF p
<1>4. Becomes(r, p.step, p.read, p.token, p.status, p.cookies)
    BY <1>1, <1>3, Replaced DEF q
<1> QED BY <1>3, <1>4 DEF q

LEMMA Responds ==
    ASSUME WayTyped, NEW r \in Visit, NEW st \in Way!Status, Way!Respond(r, st)
    PROVE  LET q == request[r] IN Becomes(r, "response", q.read, q.token, st, q.cookies)
<1> DEFINE q == request[r]
           p == [q EXCEPT !.step = "response", !.status = st]
<1>1. request' = [request EXCEPT ![r] = p]
    BY DEF Way!Respond
<1>2. q \in Carried /\ "response" \in Way!Steps
    BY DEF WayTyped, Way!Steps
<1> HIDE DEF q
<1>3. /\ p \in Carried /\ p.app = q.app /\ p.path = q.path /\ p.size = q.size
      /\ p.step = "response" /\ p.read = q.read /\ p.token = q.token /\ p.status = st
      /\ p.cookies = q.cookies
    BY <1>2 DEF Carried
<1> HIDE DEF p
<1>4. Becomes(r, p.step, p.read, p.token, p.status, p.cookies)
    BY <1>1, <1>3, Replaced DEF q
<1> QED BY <1>3, <1>4 DEF q

\* versions of accounts do not go back
Grows == \A a \in Way!App : accounts[a].version <= accounts'[a].version

LEMMA OthersStaySound ==
    ASSUME WayTyped, WayTyped', Grows, NEW q \in Carried, NEW e, NEW old \in BOOLEAN,
           Sound(q, e, accounts, old)
    PROVE  Sound(q, e, accounts', old)
<1>1. /\ q.app \in Way!App /\ q.token \in Way!Session /\ q.cookies \in Way!Session \union {Keep}
    BY DEF Carried
<1>2. \A a \in Way!App : /\ accounts[a].version \in Nat /\ accounts'[a].version \in Nat
                         /\ accounts[a].version <= accounts'[a].version
    BY WayNames DEF WayTyped, Grows
<1>3. \A v \in Way!Session \union {Keep} : v # NoSession /\ v # Keep => v \in Nat
    BY WayNames DEF Way!Session
<1>4. /\ Began(q.token, accounts', q.app) /\ Began(q.cookies, accounts', q.app)
    BY <1>1, <1>2, <1>3 DEF Sound, SessionFits, Began
<1>5. q.token # NoSession /\ q.token < accounts[q.app].version => q.token < accounts'[q.app].version
    <2> SUFFICES ASSUME q.token # NoSession, q.token < accounts[q.app].version
                 PROVE  q.token < accounts'[q.app].version
        OBVIOUS
    <2>1. q.token \in Nat
        BY <1>1, WayNames DEF Way!Session
    <2>2. /\ accounts[q.app].version \in Nat /\ accounts'[q.app].version \in Nat
          /\ accounts[q.app].version <= accounts'[q.app].version
        BY <1>1, <1>2
    <2> QED BY <2>1, <2>2
<1>6. SessionFits(q, accounts')
    BY <1>4, <1>5 DEF Sound, SessionFits
<1>7. old => StaleIsRefused(q, e, accounts')
    BY <1>5 DEF Sound, StaleIsRefused
<1> QED BY <1>6, <1>7 DEF Sound

\* A step of one request in which no account changes.
LEMMA OneRequest ==
    ASSUME WayInv, NEW r \in Visit, NEW s, NEW n, NEW t, NEW st, NEW c, Becomes(r, s, n, t, st, c),
           UNCHANGED <<accounts, held, runs, ended, stale>>,
           Sound(request'[r], runs[r], accounts, r \in stale)
    PROVE  WayInv'
<1>1. WayTyped'
    BY DEF WayInv, WayTyped, Becomes
<1>2. \A o \in Visit : Sound(request'[o], runs'[o], accounts', o \in stale')
    BY DEF WayInv, Becomes
<1>3. \A a \in Way!App : Began(held'[a], accounts', a) /\ ended'[a] <= accounts'[a].version
    BY DEF WayInv
<1> QED BY <1>1, <1>2, <1>3 DEF WayInv

LEMMA GateKeeps ==
    ASSUME WayInv, NEW r \in Visit, Way!Gate(r)
    PROVE  WayInv'
<1> DEFINE q == request[r]
<1>1. /\ WayTyped /\ Sound(q, runs[r], accounts, r \in stale)
      /\ UNCHANGED <<accounts, held, runs, ended, stale>> /\ q.step = "gate"
    BY DEF WayInv, Way!Gate
<1>2. ASSUME NEW st \in {"403", "404", "413"}, Way!Reply(r, st, Keep) PROVE WayInv'
    <2>1. Becomes(r, "reply", q.read, q.token, st, Keep)
        BY <1>1, <1>2, Replies DEF Way!Status
    <2>2. Sound(request'[r], runs[r], accounts, r \in stale)
        BY <1>1, <2>1
        DEF Becomes, Sound, BodyFits, EffectIsTold, SessionFits, StaleIsRefused, Began
    <2> QED BY <1>1, <2>1, <2>2, OneRequest
<1>3. CASE Way!GoTo(r, "body")
    <2>1. Becomes(r, "body", q.read, q.token, q.status, q.cookies)
        BY <1>1, <1>3, GoesTo DEF Way!Steps
    <2>2. Sound(request'[r], runs[r], accounts, r \in stale)
        BY <1>1, <2>1
        DEF Becomes, Sound, BodyFits, EffectIsTold, SessionFits, StaleIsRefused, Began
    <2> QED BY <1>1, <2>1, <2>2, OneRequest
<1> QED BY <1>2, <1>3 DEF Way!Gate

LEMMA ReadBodyKeeps ==
    ASSUME WayInv, NEW r \in Visit, Way!ReadBody(r)
    PROVE  WayInv'
<1> DEFINE q == request[r]
<1>1. /\ WayTyped /\ Sound(q, runs[r], accounts, r \in stale) /\ q \in Carried
      /\ UNCHANGED <<accounts, held, runs, ended, stale>> /\ q.step = "body"
    BY DEF WayInv, WayTyped, Way!ReadBody
<1>2. ASSUME q.read = q.size,
             NEW s \in {"logout", "call"}, s = "logout" => Way!Operation(q.path) = "logout",
             Way!GoTo(r, s)
      PROVE  WayInv'
    <2>1. Becomes(r, s, q.read, q.token, q.status, q.cookies)
        BY <1>1, <1>2, GoesTo DEF Way!Steps
    <2>2. Sound(request'[r], runs[r], accounts, r \in stale)
        BY <1>1, <1>2, <2>1
        DEF Becomes, Sound, BodyFits, EffectIsTold, SessionFits, StaleIsRefused, Began
    <2> QED BY <1>1, <2>1, <2>2, OneRequest
<1>3. CASE Way!Reply(r, "413", Keep)
    <2>1. Becomes(r, "reply", q.read, q.token, "413", Keep)
        BY <1>1, <1>3, Replies DEF Way!Status
    <2>2. Sound(request'[r], runs[r], accounts, r \in stale)
        BY <1>1, <2>1
        DEF Becomes, Sound, BodyFits, EffectIsTold, SessionFits, StaleIsRefused, Began
    <2> QED BY <1>1, <2>1, <2>2, OneRequest
<1>4. ASSUME NEW n \in (q.read + 1)..q.size, ~Way!TooLong(n),
             request' = [request EXCEPT ![r].read = n]
      PROVE  WayInv'
    <2>1. q.read \in Nat /\ q.size \in Nat /\ n \in Nat
        <3>1. q.read \in Nat /\ q.size \in Nat
            BY <1>1, WayNames DEF Carried
        <3> QED BY <1>4, <3>1
    <2>2. Becomes(r, "body", n, q.token, q.status, q.cookies)
        <3>1. request' = [request EXCEPT ![r] = [@ EXCEPT !.read = n]]
            BY <1>4
        <3> QED BY <1>1, <2>1, <3>1 DEF WayTyped, Becomes, Carried
    <2>3. n <= q.size /\ n <= MaxBody
        BY <1>4, <2>1, WayNames DEF Way!TooLong
    <2>4. Sound(request'[r], runs[r], accounts, r \in stale)
        BY <1>1, <2>2, <2>3
        DEF Becomes, Sound, BodyFits, EffectIsTold, SessionFits, StaleIsRefused, Began
    <2> QED BY <1>1, <2>2, <2>4, OneRequest
<1>5. CASE q.read = q.size
    BY <1>2, <1>5 DEF Way!ReadBody
<1>6. CASE q.read # q.size
    <2>1. PICK n \in (q.read + 1)..q.size :
              IF Way!TooLong(n) THEN Way!Reply(r, "413", Keep)
              ELSE request' = [request EXCEPT ![r].read = n]
        BY <1>6 DEF Way!ReadBody
    <2> QED BY <1>3, <1>4, <2>1
<1> QED BY <1>5, <1>6

LEMMA LogOutKeeps ==
    ASSUME WayInv, NEW r \in Visit, Way!LogOut(r)
    PROVE  WayInv'
<1> DEFINE q == request[r]
<1>1. /\ WayTyped /\ Sound(q, runs[r], accounts, r \in stale)
      /\ UNCHANGED <<accounts, held, runs, ended, stale>> /\ q.step = "logout"
    BY DEF WayInv, Way!LogOut
<1>2. PICK st \in {"ok", "502"} : Way!Reply(r, st, NoSession)
    BY DEF Way!LogOut
<1>3. Becomes(r, "reply", q.read, q.token, st, NoSession)
    BY <1>1, <1>2, Replies DEF Way!Status, Way!Session
<1>4. Way!Operation(q.path) = "logout"
    BY <1>1 DEF Sound, EffectIsTold
<1>5. Sound(request'[r], runs[r], accounts, r \in stale)
    BY <1>1, <1>3, <1>4
    DEF Becomes, Sound, BodyFits, EffectIsTold, SessionFits, StaleIsRefused, Began
<1> QED BY <1>1, <1>3, <1>5, OneRequest

LEMMA CallKeeps ==
    ASSUME WayInv, NEW r \in Visit, Way!Call(r)
    PROVE  WayInv'
<1> DEFINE q == request[r]
<1>1. /\ WayTyped /\ Sound(q, runs[r], accounts, r \in stale)
      /\ UNCHANGED <<accounts, held, runs, ended, stale>> /\ q.step = "call" /\ Way!GoTo(r, "guard")
    BY DEF WayInv, Way!Call
<1>2. Becomes(r, "guard", q.read, q.token, q.status, q.cookies)
    BY <1>1, GoesTo DEF Way!Steps
<1>3. Sound(request'[r], runs[r], accounts, r \in stale)
    BY <1>1, <1>2 DEF Becomes, Sound, BodyFits, EffectIsTold, SessionFits, StaleIsRefused, Began
<1> QED BY <1>1, <1>2, <1>3, OneRequest

LEMMA GuardKeeps ==
    ASSUME WayInv, NEW r \in Visit, Way!Guard(r)
    PROVE  WayInv'
<1> DEFINE q == request[r]
           a == Way!Audience(q.path)
<1>1. /\ WayTyped /\ Sound(q, runs[r], accounts, r \in stale) /\ q \in Carried
      /\ UNCHANGED <<accounts, held, runs, ended, stale>> /\ q.step = "guard"
    BY DEF WayInv, WayTyped, Way!Guard
<1>2. ASSUME NEW s \in {"handle", "validate"}, Way!GoTo(r, s),
             s = "handle" => a = "none" \/ (q.token = NoSession /\ Way!IsOptional(q.path)),
             s = "validate" => q.token # NoSession /\ q.app = a
      PROVE  WayInv'
    <2>1. Becomes(r, s, q.read, q.token, q.status, q.cookies)
        BY <1>1, <1>2, GoesTo DEF Way!Steps
    <2>2. Sound(request'[r], runs[r], accounts, r \in stale)
        BY <1>1, <1>2, <2>1
        DEF Becomes, Sound, BodyFits, EffectIsTold, SessionFits, StaleIsRefused, Began
    <2> QED BY <1>1, <2>1, <2>2, OneRequest
<1>3. CASE Way!Respond(r, "401")
    <2>1. Becomes(r, "response", q.read, q.token, "401", q.cookies)
        BY <1>1, <1>3, Responds DEF Way!Status
    <2>2. Sound(request'[r], runs[r], accounts, r \in stale)
        BY <1>1, <2>1
        DEF Becomes, Sound, BodyFits, EffectIsTold, SessionFits, StaleIsRefused, Began
    <2> QED BY <1>1, <2>1, <2>2, OneRequest
<1>4. CASE /\ Way!IsOptional(q.path)
           /\ request' = [request EXCEPT ![r].step = "handle", ![r].token = NoSession]
    <2>1. Becomes(r, "handle", q.read, NoSession, q.status, q.cookies)
        <3>1. request' = [request EXCEPT ![r] = [@ EXCEPT !.step = "handle", !.token = NoSession]]
            BY <1>4
        <3>2. "handle" \in Way!Steps /\ NoSession \in Way!Session
            BY DEF Way!Steps, Way!Session
        <3> QED BY <1>1, <3>1, <3>2 DEF WayTyped, Becomes, Carried
    <2>2. Way!Operation(q.path) # "end"
        BY <1>1, <1>4, Paths DEF Carried
    <2>3. Sound(request'[r], runs[r], accounts, r \in stale)
        BY <1>1, <1>4, <2>1, <2>2
        DEF Becomes, Sound, BodyFits, EffectIsTold, SessionFits, StaleIsRefused, Began
    <2> QED BY <1>1, <2>1, <2>3, OneRequest
<1> QED BY <1>2, <1>3, <1>4 DEF Way!Guard

LEMMA ValidateKeeps ==
    ASSUME WayInv, NEW r \in Visit, Way!Validate(r)
    PROVE  WayInv'
<1> DEFINE q == request[r]
<1>1. /\ WayTyped /\ Sound(q, runs[r], accounts, r \in stale) /\ q \in Carried
      /\ UNCHANGED <<accounts, held, runs, ended, stale>> /\ q.step = "validate"
    BY DEF WayInv, WayTyped, Way!Validate
<1>2. CASE Way!IsAuthPayloadActive(q.app, q.token) /\ Way!GoTo(r, "handle")
    <2>1. Becomes(r, "handle", q.read, q.token, q.status, q.cookies)
        BY <1>1, <1>2, GoesTo DEF Way!Steps
    <2>2. q.token # NoSession /\ q.app = Way!Audience(q.path)
        BY <1>1 DEF Sound, SessionFits
    <2>3. r \notin stale
        <3>1. accounts[q.app].version = q.token /\ q.token \in Nat
            BY <1>1, <1>2, <2>2, WayNames DEF Way!IsAuthPayloadActive, Carried, Way!Session
        <3> QED BY <1>1, <2>2, <3>1 DEF Sound, StaleIsRefused
    <2>4. Sound(request'[r], runs[r], accounts, r \in stale)
        BY <1>1, <2>1, <2>2, <2>3 DEF Becomes, Sound, BodyFits, EffectIsTold, SessionFits, Began
    <2> QED BY <1>1, <2>1, <2>4, OneRequest
<1>3. CASE Way!Respond(r, "401")
    <2>1. Becomes(r, "response", q.read, q.token, "401", q.cookies)
        BY <1>1, <1>3, Responds DEF Way!Status
    <2>2. Sound(request'[r], runs[r], accounts, r \in stale)
        BY <1>1, <2>1
        DEF Becomes, Sound, BodyFits, EffectIsTold, SessionFits, StaleIsRefused, Began
    <2> QED BY <1>1, <2>1, <2>2, OneRequest
<1> QED BY <1>2, <1>3 DEF Way!Validate

LEMMA ReceiveKeeps ==
    ASSUME WayInv, NEW r \in Visit, Way!Receive(r)
    PROVE  WayInv'
<1> DEFINE q == request[r]
<1>1. /\ WayTyped /\ Sound(q, runs[r], accounts, r \in stale) /\ q \in Carried
      /\ UNCHANGED <<accounts, held, runs, ended, stale>> /\ q.step = "response"
    BY DEF WayInv, WayTyped, Way!Receive
<1>2. CASE Way!IsRefused(q) /\ Way!GoTo(r, "refresh")
    <2>1. Becomes(r, "refresh", q.read, q.token, q.status, q.cookies)
        BY <1>1, <1>2, GoesTo DEF Way!Steps
    <2>2. q.status = "401" /\ q.token # NoSession
        BY <1>2 DEF Way!IsRefused
    <2>3. Sound(request'[r], runs[r], accounts, r \in stale)
        BY <1>1, <2>1, <2>2
        DEF Becomes, Sound, BodyFits, EffectIsTold, SessionFits, StaleIsRefused, Began
    <2> QED BY <1>1, <2>1, <2>3, OneRequest
<1>3. CASE Way!Reply(r, q.status, q.cookies)
    <2>1. Becomes(r, "reply", q.read, q.token, q.status, q.cookies)
        BY <1>1, <1>3, Replies DEF Carried
    <2>2. Sound(request'[r], runs[r], accounts, r \in stale)
        BY <1>1, <2>1
        DEF Becomes, Sound, BodyFits, EffectIsTold, SessionFits, StaleIsRefused, Began
    <2> QED BY <1>1, <2>1, <2>2, OneRequest
<1> QED BY <1>2, <1>3 DEF Way!Receive

LEMMA LoseCallKeeps ==
    ASSUME WayInv, NEW r \in Visit, Way!LoseCall(r)
    PROVE  WayInv'
<1> DEFINE q == request[r]
<1>1. /\ WayTyped /\ Sound(q, runs[r], accounts, r \in stale) /\ q \in Carried
      /\ UNCHANGED <<accounts, held, runs, ended, stale>> /\ q.step \in {"guard", "response"}
    BY DEF WayInv, WayTyped, Way!LoseCall
<1>2. PICK st \in {"500", "502"}, c \in {q.cookies, Keep} : Way!Reply(r, st, c)
    BY DEF Way!LoseCall
<1>3. Becomes(r, "reply", q.read, q.token, st, c)
    BY <1>1, <1>2, Replies DEF Way!Status, Carried
<1>4. Sound(request'[r], runs[r], accounts, r \in stale)
    BY <1>1, <1>2, <1>3
    DEF Becomes, Sound, BodyFits, EffectIsTold, SessionFits, StaleIsRefused, Began
<1> QED BY <1>1, <1>3, <1>4, OneRequest

LEMMA RefreshTokensKeeps ==
    ASSUME WayInv, NEW r \in Visit, Way!RefreshTokens(r)
    PROVE  WayInv'
<1> DEFINE q == request[r]
<1>1. /\ WayTyped /\ Sound(q, runs[r], accounts, r \in stale) /\ q \in Carried
      /\ UNCHANGED <<accounts, held, runs, ended, stale>> /\ q.step = "refresh"
    BY DEF WayInv, WayTyped, Way!RefreshTokens
<1>2. CASE request' = [request EXCEPT ![r].step = "call", ![r].rotated = TRUE, ![r].cookies = q.token]
    <2>1. Becomes(r, "call", q.read, q.token, q.status, q.token)
        <3>1. request' = [request EXCEPT ![r] =
                             [@ EXCEPT !.step = "call", !.rotated = TRUE, !.cookies = q.token]]
            BY <1>2
        <3>2. "call" \in Way!Steps
            BY DEF Way!Steps
        <3> QED BY <1>1, <3>1, <3>2 DEF WayTyped, Becomes, Carried
    <2>2. Sound(request'[r], runs[r], accounts, r \in stale)
        BY <1>1, <2>1
        DEF Becomes, Sound, BodyFits, EffectIsTold, SessionFits, StaleIsRefused, Began
    <2> QED BY <1>1, <2>1, <2>2, OneRequest
<1>3. ASSUME NEW st \in {"409", "502", "401"}, NEW c \in {Keep, NoSession}, Way!Reply(r, st, c)
      PROVE  WayInv'
    <2>1. Becomes(r, "reply", q.read, q.token, st, c)
        BY <1>1, <1>3, Replies DEF Way!Status, Way!Session
    <2>2. Sound(request'[r], runs[r], accounts, r \in stale)
        BY <1>1, <1>3, <2>1
        DEF Becomes, Sound, BodyFits, EffectIsTold, SessionFits, StaleIsRefused, Began
    <2> QED BY <1>1, <2>1, <2>2, OneRequest
<1> QED BY <1>2, <1>3 DEF Way!RefreshTokens

LEMMA SendKeeps ==
    ASSUME WayInv, NEW r \in Visit, Way!Send(r)
    PROVE  WayInv'
<1> DEFINE f == Way!Fresh
<1>1. PICK a \in Way!App, p \in Way!Path, n \in Sizes, d \in BOOLEAN, o \in BOOLEAN :
          /\ Way!Reads(p) => n = 0 /\ ~d /\ o
          /\ request' = [request EXCEPT ![r] =
                [Way!Fresh EXCEPT !.step = "gate", !.app = a, !.path = p, !.size = n,
                                  !.declared = d, !.sameOrigin = o, !.token = held[a]]]
          /\ stale' = IF held[a] # NoSession /\ held[a] < ended[a] THEN stale \union {r} ELSE stale
    BY Zenon DEF Way!Send
<1>2. /\ UNCHANGED <<accounts, held, runs, ended>> /\ request[r].step = "idle"
      /\ WayTyped /\ Sound(request[r], runs[r], accounts, r \in stale)
      /\ Began(held[a], accounts, a) /\ ended[a] <= accounts[a].version
    BY DEF WayInv, Way!Send
<1> DEFINE q == request'[r]
<1>3. /\ request' \in [Visit -> Carried] /\ \A v \in Visit \ {r} : request'[v] = request[v]
      /\ q.step = "gate" /\ q.app = a /\ q.path = p /\ q.size = n /\ q.read = 0
      /\ q.token = held[a] /\ q.status = "none" /\ q.cookies = Keep
    <2>1. f \in Carried /\ f.read = 0 /\ f.status = "none" /\ f.cookies = Keep
        BY FreshIsCarried
    <2>2. held[a] \in Way!Session /\ "gate" \in Way!Steps
        BY <1>2 DEF WayTyped, Way!Steps
    <2>3. request' = [request EXCEPT ![r] =
                         [f EXCEPT !.step = "gate", !.app = a, !.path = p, !.size = n,
                                   !.declared = d, !.sameOrigin = o, !.token = held[a]]]
        BY <1>1
    <2> HIDE DEF f
    <2> QED BY <1>2, <2>1, <2>2, <2>3 DEF WayTyped, Carried
<1> HIDE DEF q
<1>6. runs[r] = <<>> /\ r \notin stale
    BY <1>2 DEF Sound, EffectIsTold, StaleIsRefused
<1>7. held[a] # NoSession /\ held[a] < ended[a] => held[a] < accounts[a].version
    <2>1. held[a] # NoSession => held[a] \in Nat
        BY <1>2, WayNames DEF WayTyped, Way!Session
    <2>2. ended[a] \in Nat /\ accounts[a].version \in Nat
        BY <1>2, WayNames DEF WayTyped
    <2> QED BY <1>2, <2>1, <2>2
<1>8. Sound(q, <<>>, accounts, r \in stale')
    <2>1. BodyFits(q) /\ EffectIsTold(q, <<>>)
        BY <1>3, WayNames DEF BodyFits, EffectIsTold
    <2>2. SessionFits(q, accounts)
        BY <1>2, <1>3 DEF SessionFits, Began
    <2>3. r \in stale' => held[a] # NoSession /\ held[a] < ended[a]
        BY <1>1, <1>6
    <2>4. r \in stale' => StaleIsRefused(q, <<>>, accounts)
        BY <1>3, <1>7, <2>3 DEF StaleIsRefused
    <2> QED BY <2>1, <2>2, <2>4 DEF Sound
<1>9. WayTyped'
    BY <1>1, <1>2, <1>3 DEF WayTyped
<1>10. \A v \in Visit : Sound(request'[v], runs'[v], accounts', v \in stale')
    <2>1. \A v \in Visit \ {r} : v \in stale' <=> v \in stale
        BY <1>1
    <2>2. \A v \in Visit \ {r} : Sound(request'[v], runs'[v], accounts', v \in stale')
        BY <1>2, <1>3, <2>1 DEF WayInv, Sound
    <2> QED BY <1>2, <1>6, <1>8, <2>2 DEF q
<1>11. \A b \in Way!App : Began(held'[b], accounts', b) /\ ended'[b] <= accounts'[b].version
    BY <1>2 DEF WayInv
<1> QED BY <1>9, <1>10, <1>11 DEF WayInv

\* A handler has its effect with the whole body.  If it ends the sessions of the
\* account it ends that of its request: the version is past the token's.
LEMMA HandleKeeps ==
    ASSUME WayInv, NEW r \in Visit, Way!Handle(r)
    PROVE  WayInv'
<1> DEFINE q == request[r]
           p == request'[r]
<1>1. /\ WayTyped /\ Sound(q, runs[r], accounts, r \in stale) /\ q \in Carried
      /\ UNCHANGED <<held, ended, stale>> /\ q.step = "handle"
    BY DEF WayInv, WayTyped, Way!Handle
<1>2. /\ runs[r] = <<>> /\ q.read = q.size /\ q.size \in Nat /\ q.size <= MaxBody
    BY <1>1, WayNames DEF Sound, EffectIsTold, BodyFits, Carried
\* it refuses
<1>3. ASSUME NEW st \in {"401", "other"}, Way!Respond(r, st), UNCHANGED <<accounts, runs>>
      PROVE  WayInv'
    <2>1. Becomes(r, "response", q.read, q.token, st, q.cookies)
        BY <1>1, <1>3, Responds DEF Way!Status
    <2>2. Sound(request'[r], runs[r], accounts, r \in stale)
        BY <1>1, <1>3, <2>1
        DEF Becomes, Sound, BodyFits, EffectIsTold, SessionFits, StaleIsRefused, Began
    <2> QED BY <1>1, <1>3, <2>1, <2>2, OneRequest
\* it has its effect
<1>4. ASSUME runs' = [runs EXCEPT ![r] = <<q.size>>],
             NEW st \in {"ok", "other"}, NEW c, Becomes(r, "response", q.read, q.token, st, c),
             Began(c, accounts, q.app),
             accounts' \in [Way!App -> [version : Way!Version, active : BOOLEAN]], Grows,
             Way!Operation(q.path) = "end" =>
                accounts'[q.path[1]].version = accounts[q.path[1]].version + 1
      PROVE  WayInv'
    <2>1. WayTyped'
        BY <1>1, <1>4 DEF WayTyped, Becomes
    <2>2. ASSUME NEW v \in Visit, v # r PROVE Sound(request'[v], runs'[v], accounts', v \in stale')
        <3>1. Sound(request[v], runs[v], accounts, v \in stale) /\ request[v] \in Carried
            BY <1>1 DEF WayInv, WayTyped
        <3>2. Sound(request[v], runs[v], accounts', v \in stale)
            <4>1. (v \in stale) \in BOOLEAN
                OBVIOUS
            <4> QED BY <1>1, <1>4, <2>1, <3>1, <4>1, OthersStaySound
        <3> QED BY <1>1, <1>4, <2>2, <3>2 DEF Becomes, WayTyped
    <2>3. /\ q.app \in Way!App /\ q.path \in Way!Path /\ q.token \in Way!Session
        BY <1>1 DEF Carried
    <2>4. \A a \in Way!App : /\ accounts[a].version \in Nat /\ accounts'[a].version \in Nat
                             /\ accounts[a].version <= accounts'[a].version
        BY <1>1, <1>4, WayNames DEF WayTyped, Grows
    <2>5. Way!Operation(q.path) = "end" =>
             /\ q.token # NoSession /\ q.app = q.path[1]
             /\ q.token < accounts'[q.app].version
        <3> SUFFICES ASSUME Way!Operation(q.path) = "end"
                     PROVE  /\ q.token # NoSession /\ q.app = q.path[1]
                            /\ q.token < accounts'[q.app].version
            OBVIOUS
        <3>1. /\ Way!Audience(q.path) = q.path[1] /\ q.path[1] \in Way!App
              /\ ~Way!IsOptional(q.path)
            BY <2>3, Paths
        <3>2. q.path[1] # "none"
            BY <3>1 DEF Way!App
        <3>3. q.token # NoSession /\ q.app = q.path[1]
            BY <1>1, <3>1, <3>2 DEF Sound, SessionFits
        <3>4. q.token \in Nat /\ q.token # Keep
            BY <2>3, <3>3, WayNames DEF Way!Session
        <3>5. q.token <= accounts[q.app].version
            BY <1>1, <3>3, <3>4 DEF Sound, SessionFits, Began
        <3>6. /\ accounts[q.app].version \in Nat
              /\ accounts'[q.app].version = accounts[q.app].version + 1
            BY <1>4, <2>3, <2>4, <3>3
        <3> QED BY ONLY <3>3, <3>4, <3>5, <3>6
    <2>6. Began(q.token, accounts', q.app) /\ Began(c, accounts', q.app)
        <3>1. ASSUME NEW v \in Way!Session \union {Keep}, NEW a \in Way!App, Began(v, accounts, a)
              PROVE  Began(v, accounts', a)
            <4>1. v # NoSession /\ v # Keep => v \in Nat
                BY WayNames DEF Way!Session
            <4> QED BY <2>4, <3>1, <4>1 DEF Began
        <3>2. c \in Way!Session \union {Keep}
            BY <1>4 DEF Becomes, Carried
        <3> QED BY <1>1, <1>4, <2>3, <3>1, <3>2 DEF Sound, SessionFits
    <2>7. SessionFits(p, accounts')
        BY <1>4, <2>5, <2>6 DEF Becomes, SessionFits
    <2>8. r \in stale => StaleIsRefused(p, <<q.size>>, accounts')
        <3> SUFFICES ASSUME r \in stale PROVE StaleIsRefused(p, <<q.size>>, accounts')
            OBVIOUS
        <3>1. q.token # NoSession =>
                 q.token < accounts[q.app].version /\ Way!Audience(q.path) = "none"
            BY <1>1 DEF Sound, StaleIsRefused
        <3>2. q.token # NoSession => q.token < accounts'[q.app].version
            <4>1. q.token # NoSession => q.token \in Nat
                BY <2>3, WayNames DEF Way!Session
            <4> QED BY <2>3, <2>4, <3>1, <4>1
        <3> QED BY <1>4, <3>1, <3>2 DEF Becomes, StaleIsRefused
    <2>9. BodyFits(p) /\ EffectIsTold(p, <<q.size>>)
        BY <1>1, <1>2, <1>4 DEF Becomes, Sound, BodyFits, EffectIsTold
    <2>10. Sound(p, runs'[r], accounts', r \in stale')
        BY <1>1, <1>4, <2>7, <2>8, <2>9 DEF Sound, WayTyped
    <2>11. \A a \in Way!App : Began(held'[a], accounts', a) /\ ended'[a] <= accounts'[a].version
        <3> SUFFICES ASSUME NEW a \in Way!App
                     PROVE  Began(held[a], accounts', a) /\ ended[a] <= accounts'[a].version
            BY <1>1
        <3>1. Began(held[a], accounts, a) /\ ended[a] <= accounts[a].version
            BY DEF WayInv
        <3>2. ended[a] \in Nat /\ (held[a] # NoSession => held[a] \in Nat)
            BY <1>1, WayNames DEF WayTyped, Way!Session
        <3> QED BY <2>4, <3>1, <3>2 DEF Began
    <2> QED BY <2>1, <2>2, <2>10, <2>11 DEF WayInv
<1>5. CASE /\ runs' = [runs EXCEPT ![r] = Append(@, q.read)]
           /\ IF Way!Operation(q.path) = "login"
                 THEN /\ accounts[q.app].active
                      /\ request' = [request EXCEPT ![r].step = "response", ![r].status = "ok",
                                                    ![r].cookies = accounts[q.app].version]
                 ELSE Way!Respond(r, "ok") \/ Way!Respond(r, "other")
           /\ IF Way!Operation(q.path) = "end" THEN Way!EndSessions(q.path[1])
              ELSE UNCHANGED accounts
    <2>1. runs' = [runs EXCEPT ![r] = <<q.size>>]
        BY <1>1, <1>2, <1>5 DEF WayTyped
    <2>2. /\ accounts' \in [Way!App -> [version : Way!Version, active : BOOLEAN]] /\ Grows
          /\ Way!Operation(q.path) = "end" =>
                accounts'[q.path[1]].version = accounts[q.path[1]].version + 1
        <3>1. CASE Way!Operation(q.path) = "end"
            <4>1. q.path[1] \in Way!App
                BY <1>1, <3>1, Paths DEF Carried
            <4>2. PICK on \in BOOLEAN :
                     /\ accounts[q.path[1]].version < 2
                     /\ accounts' = [accounts EXCEPT ![q.path[1]] =
                                        [version |-> @.version + 1, active |-> on]]
                BY <1>5, <3>1 DEF Way!EndSessions
            <4>3. accounts[q.path[1]].version \in 0..2
                BY <1>1, <4>1 DEF WayTyped, Way!Version
            <4>4. accounts[q.path[1]].version + 1 \in Way!Version
                BY <4>2, <4>3 DEF Way!Version
            <4>5. /\ accounts' \in [Way!App -> [version : Way!Version, active : BOOLEAN]]
                  /\ accounts'[q.path[1]].version = accounts[q.path[1]].version + 1
                  /\ \A a \in Way!App : a # q.path[1] => accounts'[a] = accounts[a]
                BY <1>1, <4>1, <4>2, <4>4 DEF WayTyped
            <4>6. \A a \in Way!App : accounts[a].version \in Nat
                BY <1>1, WayNames DEF WayTyped
            <4> QED BY <4>5, <4>6 DEF Grows
        <3>2. CASE Way!Operation(q.path) # "end"
            <4>1. accounts' = accounts /\ \A a \in Way!App : accounts[a].version \in Nat
                BY <1>1, <1>5, <3>2, WayNames DEF WayTyped
            <4> QED BY <1>1, <3>2, <4>1 DEF WayTyped, Grows
        <3> QED BY <3>1, <3>2
    <2>3. CASE Way!Operation(q.path) = "login"
        <3> DEFINE v == accounts[q.app].version
        <3>1. v \in Way!Version /\ v \in Nat /\ v \in Way!Session /\ "response" \in Way!Steps
              /\ "ok" \in Way!Status
            BY <1>1, WayNames DEF WayTyped, Carried, Way!Session, Way!Steps, Way!Status
        <3>2. request' = [request EXCEPT ![r] =
                             [@ EXCEPT !.step = "response", !.status = "ok", !.cookies = v]]
            BY <1>5, <2>3
        <3>3. Becomes(r, "response", q.read, q.token, "ok", v)
            BY <1>1, <3>1, <3>2 DEF WayTyped, Becomes, Carried
        <3>4. Began(v, accounts, q.app)
            BY <3>1 DEF Began
        <3> QED BY <1>4, <2>1, <2>2, <3>3, <3>4
    <2>4. CASE Way!Operation(q.path) # "login"
        <3>1. PICK st \in {"ok", "other"} : Way!Respond(r, st)
            BY <1>5, <2>4
        <3>2. Becomes(r, "response", q.read, q.token, st, q.cookies)
            BY <1>1, <3>1, Responds DEF Way!Status
        <3>3. Began(q.cookies, accounts, q.app)
            BY <1>1 DEF Sound, SessionFits
        <3> QED BY <1>4, <2>1, <2>2, <3>2, <3>3
    <2> QED BY <2>3, <2>4
<1> QED BY <1>3, <1>5 DEF Way!Handle

LEMMA DeliverKeeps ==
    ASSUME WayInv, NEW r \in Visit, Way!Deliver(r)
    PROVE  WayInv'
<1> DEFINE q == request[r]
<1>1. /\ WayTyped /\ Sound(q, runs[r], accounts, r \in stale) /\ q \in Carried
      /\ UNCHANGED <<accounts, runs, stale>> /\ q.step = "reply" /\ Way!GoTo(r, "done")
    BY DEF WayInv, WayTyped, Way!Deliver
<1>2. Becomes(r, "done", q.read, q.token, q.status, q.cookies)
    BY <1>1, GoesTo DEF Way!Steps
<1>3. Sound(request'[r], runs[r], accounts, r \in stale)
    BY <1>1, <1>2 DEF Becomes, Sound, BodyFits, EffectIsTold, SessionFits, StaleIsRefused, Began
<1>4. /\ held' = IF q.cookies = Keep THEN held ELSE [held EXCEPT ![q.app] = q.cookies]
      /\ ended' = IF Way!Operation(q.path) = "end" /\ q.status = "ok"
                     THEN [ended EXCEPT ![q.app] = IF @ > q.token THEN @ ELSE q.token + 1]
                     ELSE ended
    BY DEF Way!Deliver
<1>5. q.app \in Way!App /\ q.cookies \in Way!Session \union {Keep} /\ q.token \in Way!Session
    BY <1>1 DEF Carried
<1>6. \A a \in Way!App : /\ accounts[a].version \in 0..2 /\ ended[a] \in 0..2
                         /\ ended[a] <= accounts[a].version
    BY <1>1 DEF WayInv, WayTyped, Way!Version
<1>7. /\ held' \in [Way!App -> Way!Session]
      /\ \A a \in Way!App : Began(held'[a], accounts', a)
    <2>1. Began(q.cookies, accounts, q.app)
        BY <1>1 DEF Sound, SessionFits
    <2>2. held \in [Way!App -> Way!Session] /\ \A a \in Way!App : Began(held[a], accounts, a)
        BY <1>1 DEF WayInv, WayTyped
    <2>3. CASE q.cookies = Keep
        BY <1>1, <1>4, <2>2, <2>3
    <2>4. CASE q.cookies # Keep
        <3>1. held' \in [Way!App -> Way!Session] /\ held'[q.app] = q.cookies
              /\ \A a \in Way!App : a # q.app => held'[a] = held[a]
            BY <1>4, <1>5, <2>2, <2>4
        <3> QED BY <1>1, <2>1, <2>2, <3>1
    <2> QED BY <2>3, <2>4
<1>8. /\ ended' \in [Way!App -> Way!Version]
      /\ \A a \in Way!App : ended'[a] <= accounts'[a].version
    <2>1. CASE Way!Operation(q.path) = "end" /\ q.status = "ok"
        <3>1. q.token # NoSession /\ q.token < accounts[q.app].version
            BY <1>1, <2>1 DEF Sound, SessionFits
        <3>2. q.token \in 0..2
            BY <1>5, <3>1 DEF Way!Session, Way!Version
        <3> DEFINE e == IF ended[q.app] > q.token THEN ended[q.app] ELSE q.token + 1
        <3>3. e \in 0..2 /\ e <= accounts[q.app].version
            BY <1>5, <1>6, <3>1, <3>2
        <3>4. ended' = [ended EXCEPT ![q.app] = e]
            BY <1>4, <2>1
        <3> HIDE DEF e
        <3> QED BY <1>1, <1>5, <1>6, <3>3, <3>4 DEF WayTyped, Way!Version
    <2>2. CASE ~(Way!Operation(q.path) = "end" /\ q.status = "ok")
        BY <1>1, <1>4, <1>6, <2>2 DEF WayTyped
    <2> QED BY <2>1, <2>2
<1>9. WayTyped'
    BY <1>1, <1>2, <1>7, <1>8 DEF WayTyped, Becomes
<1>10. \A v \in Visit : Sound(request'[v], runs'[v], accounts', v \in stale')
    BY <1>1, <1>2, <1>3 DEF WayInv, Becomes
<1> QED BY <1>7, <1>8, <1>9, <1>10 DEF WayInv

LEMMA WayStep == WayInv /\ [Way!Next]_Way!vars => WayInv'
<1> SUFFICES ASSUME WayInv, [Way!Next]_Way!vars PROVE WayInv'
    OBVIOUS
<1>1. ASSUME NEW r \in Visit,
             \/ Way!Send(r) \/ Way!Gate(r) \/ Way!ReadBody(r) \/ Way!LogOut(r) \/ Way!Call(r)
             \/ Way!Guard(r) \/ Way!Validate(r) \/ Way!Handle(r)
             \/ Way!Receive(r) \/ Way!LoseCall(r) \/ Way!RefreshTokens(r) \/ Way!Deliver(r)
      PROVE  WayInv'
    BY <1>1, SendKeeps, GateKeeps, ReadBodyKeeps, LogOutKeeps, CallKeeps, GuardKeeps, ValidateKeeps,
       HandleKeeps, ReceiveKeeps, LoseCallKeeps, RefreshTokensKeeps, DeliverKeeps
<1>2. CASE UNCHANGED Way!vars
    BY <1>2 DEF Way!vars, WayInv, WayTyped
<1> QED BY <1>1, <1>2 DEF Way!Next

\* Requests keep their inductive invariant on their way, for any requests at
\* once and any bodies.
THEOREM WayInvariant == Way!Spec => []WayInv
BY WayInitially, WayStep, PTL DEF Way!Spec

\* However the BFF repeats a request it has one effect, with the body that was
\* sent, and its answer is true; and a session that is known to be over has none
\* (retryWithRotatedSession, AuthGuard).
THEOREM RequestsRunOnceAlways == Way!Spec => []RequestsRunOnce
<1>1. WayInv => RequestsRunOnce
    <2> SUFFICES ASSUME WayInv PROVE RequestsRunOnce
        OBVIOUS
    <2>1. Way!TypeOK
        <3>1. \A r \in Visit : request[r] \in Carried /\ request[r].read <= request[r].size
            BY DEF WayInv, WayTyped, Sound, BodyFits
        <3>2. \A r \in Visit : LET q == request[r] IN
                /\ q.step \in Way!Steps /\ q.status \in Way!Status
                /\ q.app \in Way!App /\ q.path \in Way!Path /\ q.size \in Sizes /\ q.read <= q.size
                /\ q.declared \in BOOLEAN /\ q.sameOrigin \in BOOLEAN /\ q.rotated \in BOOLEAN
                /\ q.token \in Way!Session /\ q.cookies \in Way!Session \union {Keep}
            BY <3>1 DEF Carried
        <3> QED BY <3>2 DEF Way!TypeOK, WayInv, WayTyped
    <2>2. ASSUME NEW r \in Visit
          PROVE  LET q == request[r] IN
                 /\ Len(runs[r]) <= 1
                 /\ \A i \in DOMAIN runs[r] : runs[r][i] = q.size /\ q.size <= MaxBody
                 /\ q.step = "done" =>
                       /\ q.status \in {"401", "403", "404", "409", "413"} => runs[r] = <<>>
                       /\ q.status = "ok" /\ Way!Operation(q.path) # "logout" => Len(runs[r]) = 1
        <3> DEFINE n == request[r].size
        <3>1. EffectIsTold(request[r], runs[r])
            BY DEF WayInv, Sound
        <3>2. Len(<<>>) = 0 /\ DOMAIN <<>> = {} /\ Len(<<n>>) = 1 /\ DOMAIN <<n>> = {1} /\ <<n>>[1] = n
            OBVIOUS
        <3>3. runs[r] = <<>> \/ (runs[r] = <<n>> /\ n <= MaxBody)
            BY <3>1 DEF EffectIsTold
        <3>4. Len(runs[r]) <= 1 /\ (runs[r] # <<>> => Len(runs[r]) = 1)
            <4>1. runs[r] = <<>> => Len(runs[r]) = 0
                BY ONLY <3>2
            <4>2. runs[r] = <<n>> => Len(runs[r]) = 1
                BY ONLY <3>2
            <4>3. CASE runs[r] = <<>>
                BY ONLY <4>1, <4>3
            <4>4. CASE runs[r] = <<n>> /\ n <= MaxBody
                BY ONLY <4>2, <4>4
            <4> QED BY ONLY <3>3, <4>3, <4>4
        <3>5. \A i \in DOMAIN runs[r] : runs[r][i] = n /\ n <= MaxBody
            <4>1. CASE runs[r] = <<>>
                <5>1. DOMAIN runs[r] = {}
                    BY ONLY <3>2, <4>1
                <5> QED BY ONLY <5>1
            <4>2. CASE runs[r] = <<n>> /\ n <= MaxBody
                <5>1. DOMAIN runs[r] = {1} /\ runs[r][1] = n
                    BY ONLY <3>2, <4>2
                <5> QED BY ONLY <4>2, <5>1
            <4> QED BY ONLY <3>3, <4>1, <4>2
        <3> QED BY <3>1, <3>4, <3>5 DEF EffectIsTold
    <2>3. Way!EndedSessionsDoNothing
        BY DEF WayInv, WayTyped, Sound, StaleIsRefused, Way!EndedSessionsDoNothing
    <2> QED BY <2>1, <2>2, <2>3 DEF RequestsRunOnce, Way!RunsOnce
<1> QED BY <1>1, WayInvariant, PTL

-----------------------------------------------------------------------------
(***************************************************************************)
(* The accounts (Accounts).  An attempt at the index that has not failed   *)
(* has a repository waiting for it, so there are no more of them than      *)
(* repositories.  A login remembers a version of its account; what the     *)
(* password was then it still is, or the version is over (WasTrue).        *)
(***************************************************************************)

Account ==
    [email : Email \union {Nobody}, password : Password \union {Nobody}, version : Nat,
     deletedAt : Nat]
Reading == [account : Change, version : Nat, password : Password \union {Nobody}]

StartupTyped ==
    /\ indexed \in BOOLEAN /\ failures \in 0..MaxFailures
    /\ attempt \in [People!Attempts -> {"none", "running", "made", "failed"}]
    /\ memo \in [Process -> People!Attempts \union {0}]
    /\ awaits \in [Repository -> People!Attempts \union {0}]
    /\ ready \subseteq Repository

BegunAttempts == {n \in People!Attempts : attempt[n] # "none"}
FailedAttempts == {n \in People!Attempts : attempt[n] = "failed"}

\* Attempts are numbered as they begin; one that has not failed is awaited by the
\* repository that began it, and one that has is one of the failures.
AttemptsAreAwaited ==
    /\ \A n \in People!Attempts : attempt[n] # "none" <=> n <= Cardinality(BegunAttempts)
    /\ Cardinality(FailedAttempts) = failures
    /\ \A n \in People!Attempts : /\ attempt[n] \in {"running", "made"} =>
                                        \E i \in Repository : awaits[i] = n
                                  /\ attempt[n] = "made" => indexed
    /\ \A i \in ready : awaits[i] # 0 /\ attempt[awaits[i]] = "made"

StartupInv == StartupTyped /\ AttemptsAreAwaited

AccountsTyped ==
    /\ now \in 1..MaxTime
    /\ users \in [Change -> Account] /\ read \in [Change -> Reading]
    /\ job \in [Change -> {"new", "compare", "generate", "done"}]
    /\ result \in [Change -> {"none", "ok", "401", "404", "409", "500"}]
    /\ \A a \in Change : users[a].deletedAt <= now

Settled == {r \in Change : job[r] = "done"}

\* An account is made by its request, and its version was not advanced by more
\* requests than there were.
AccountsAreMade ==
    \A a \in Change :
        /\ People!Exists(a) =>
              job[a] = "done" /\ users[a].version < Cardinality(Settled) /\ ready # {}
        /\ ~People!Exists(a) => users[a].version = 0

\* what was true of an account, and still is while its version is the same
WasTrue(t, docs) ==
    /\ docs[t.account].email # Nobody /\ t.version <= docs[t.account].version
    /\ docs[t.account].version = t.version => docs[t.account].password = t.password

LoginsWereTrue ==
    /\ \A r \in Change : job[r] \in {"compare", "generate"} => WasTrue(read[r], users)
    /\ \A t \in proofs : t \in Reading /\ WasTrue(t, users) /\ \E r \in Settled : t = read[r]

AccountsInv ==
    /\ AccountsTyped
    /\ AccountsAreMade
    /\ LoginsWereTrue
    /\ People!EmailsAreUnique

PeopleInv == StartupInv /\ AccountsInv

\* Accounts counts with a Cardinality of its own instance.
LEMMA PeopleCount ==
    ASSUME NEW S
    PROVE  People!Cardinality(S) = Cardinality(S) /\ People!IsFiniteSet(S) = IsFiniteSet(S)
BY DEF People!Cardinality, Cardinality, People!IsFiniteSet, IsFiniteSet

LEMMA PeopleNames ==
    /\ IsFiniteSet(Repository) /\ IsFiniteSet(Change) /\ ProcessOf \in [Repository -> Process]
    /\ Nobody \notin Email /\ Nobody \notin Password
    /\ MaxTime \in Nat \ {0} /\ MaxFailures \in Nat
BY PeopleAssumption, PeopleCount
DEF People!ProcessAssumption, People!NameAssumption, People!BoundAssumption

LEMMA AttemptsAreFinite ==
    /\ Cardinality(Repository) \in Nat
    /\ People!Attempts = 1..(MaxFailures + Cardinality(Repository))
    /\ People!Attempts \subseteq Nat \ {0} /\ IsFiniteSet(People!Attempts)
<1>1. Cardinality(Repository) \in Nat
    BY PeopleNames, FS_CardinalityType
<1>2. People!Attempts = 1..(MaxFailures + Cardinality(Repository))
    BY PeopleCount DEF People!Attempts
<1>3. IsFiniteSet(People!Attempts)
    BY <1>1, <1>2, PeopleNames, FS_Interval
<1> QED BY <1>1, <1>2, <1>3

LEMMA PeopleInitially == People!Init => PeopleInv
<1> SUFFICES ASSUME People!Init PROVE PeopleInv
    OBVIOUS
<1>1. StartupTyped
    <2>1. /\ indexed = FALSE /\ failures = 0 /\ ready = {}
          /\ attempt = [n \in People!Attempts |-> "none"]
          /\ memo = [c \in Process |-> 0] /\ awaits = [i \in Repository |-> 0]
        BY DEF People!Init
    <2>2. 0 \in 0..MaxFailures
        BY PeopleNames
    <2> QED BY <2>1, <2>2 DEF StartupTyped
<1>2. AttemptsAreAwaited
    <2>1. \A n \in People!Attempts : attempt[n] = "none"
        BY DEF People!Init
    <2>2. BegunAttempts = {} /\ FailedAttempts = {} /\ ready = {} /\ failures = 0
        BY <2>1 DEF BegunAttempts, FailedAttempts, People!Init
    <2>3. Cardinality({}) = 0
        BY FS_EmptySet
    <2>4. \A n \in People!Attempts : ~(n <= 0)
        BY AttemptsAreFinite
    <2> QED BY <2>1, <2>2, <2>3, <2>4 DEF AttemptsAreAwaited
<1>3. AccountsTyped
    <2>1. /\ now = 1 /\ users = [a \in Change |-> People!Missing]
          /\ job = [r \in Change |-> "new"] /\ result = [r \in Change |-> "none"]
          /\ read = [r \in Change |-> [account |-> r, version |-> 0, password |-> Nobody]]
        BY DEF People!Init
    <2>2. People!Missing \in Account /\ People!Missing.deletedAt = 0
        BY DEF People!Missing, Account
    <2>3. read \in [Change -> Reading]
        BY <2>1 DEF Reading
    <2> QED BY <2>1, <2>2, <2>3, PeopleNames DEF AccountsTyped
<1>4. \A a \in Change : ~People!Exists(a)
    BY DEF People!Init, People!Exists, People!Missing
<1>5. AccountsAreMade /\ LoginsWereTrue /\ People!EmailsAreUnique
    <2>1. \A a \in Change : users[a].version = 0
        BY DEF People!Init, People!Missing
    <2> QED BY <1>4, <2>1
    DEF AccountsAreMade, LoginsWereTrue, People!EmailsAreUnique, People!IsActive, People!Init
<1> QED BY <1>1, <1>2, <1>3, <1>5 DEF PeopleInv, StartupInv, AccountsInv

-----------------------------------------------------------------------------
LEMMA CountOfAttempts ==
    ASSUME StartupTyped
    PROVE  /\ IsFiniteSet(BegunAttempts) /\ Cardinality(BegunAttempts) \in Nat
           /\ IsFiniteSet(FailedAttempts) /\ Cardinality(FailedAttempts) \in Nat
BY AttemptsAreFinite, FS_Subset, FS_CardinalityType DEF BegunAttempts, FailedAttempts

\* While a repository waits for no attempt there is room for one.
LEMMA RoomForAttempt ==
    ASSUME StartupInv, NEW i \in Repository, awaits[i] = 0
    PROVE  1 + Cardinality(BegunAttempts) \in People!Attempts
<1> DEFINE Good == {n \in People!Attempts : attempt[n] \in {"running", "made"}}
           Waiting == {j \in Repository : awaits[j] \in Good}
           f == [j \in Waiting |-> awaits[j]]
<1>1. f \in Surjection(Waiting, Good)
    <2>1. f \in [Waiting -> Good]
        OBVIOUS
    <2>2. \A n \in Good : \E j \in Waiting : f[j] = n
        BY DEF StartupInv, AttemptsAreAwaited
    <2> QED BY <2>1, <2>2 DEF Surjection
<1>2. /\ IsFiniteSet(Repository \ {i})
      /\ Cardinality(Repository \ {i}) = Cardinality(Repository) - 1
    BY PeopleNames, FS_RemoveElement
<1>3. Waiting \subseteq Repository \ {i}
    BY AttemptsAreFinite
<1>4. IsFiniteSet(Waiting) /\ Cardinality(Waiting) <= Cardinality(Repository) - 1
    BY <1>2, <1>3, FS_Subset
<1>5. IsFiniteSet(Good) /\ Cardinality(Good) <= Cardinality(Waiting)
    BY <1>1, <1>4, FS_Surjection
<1>6. BegunAttempts = FailedAttempts \union Good
    BY DEF StartupInv, StartupTyped, BegunAttempts, FailedAttempts
<1>7. FailedAttempts \cap Good = {}
    BY DEF FailedAttempts
<1> HIDE DEF Good, Waiting
<1>8. IsFiniteSet(FailedAttempts) /\ Cardinality(FailedAttempts) <= MaxFailures
    BY CountOfAttempts, PeopleNames DEF StartupInv, StartupTyped, AttemptsAreAwaited
<1>9. Cardinality(BegunAttempts) = Cardinality(FailedAttempts) + Cardinality(Good)
    <2>1. Cardinality(FailedAttempts \union Good)
             = Cardinality(FailedAttempts) + Cardinality(Good) - Cardinality(FailedAttempts \cap Good)
        BY <1>5, <1>8, FS_Union
    <2>2. Cardinality(FailedAttempts \cap Good) = 0
        BY <1>7, FS_EmptySet
    <2>3. Cardinality(FailedAttempts) \in Nat /\ Cardinality(Good) \in Nat
        BY <1>5, <1>8, FS_CardinalityType
    <2> QED BY <1>6, <2>1, <2>2, <2>3
<1>10. /\ Cardinality(FailedAttempts) \in Nat /\ Cardinality(Good) \in Nat
       /\ Cardinality(Waiting) \in Nat /\ Cardinality(Repository) \in Nat
    BY <1>4, <1>5, <1>8, AttemptsAreFinite, FS_CardinalityType
<1>11. Cardinality(BegunAttempts) \in 0..(MaxFailures + Cardinality(Repository) - 1)
    BY <1>4, <1>5, <1>8, <1>9, <1>10, PeopleNames
<1> QED BY <1>10, <1>11, AttemptsAreFinite, PeopleNames

\* The accounts see of the repositories that one is ready.
LEMMA AccountsStay ==
    ASSUME AccountsInv, UNCHANGED <<now, users, job, result, read, proofs>>, ready \subseteq ready'
    PROVE  AccountsInv'
<1>1. AccountsTyped'
    BY DEF AccountsInv, AccountsTyped
<1>2. AccountsAreMade'
    BY DEF AccountsInv, AccountsAreMade, People!Exists, Settled
<1>3. LoginsWereTrue'
    BY DEF AccountsInv, LoginsWereTrue, WasTrue, Settled
<1>4. People!EmailsAreUnique'
    BY DEF AccountsInv, People!EmailsAreUnique, People!IsActive, People!Exists
<1> QED BY <1>1, <1>2, <1>3, <1>4 DEF AccountsInv

LEMMA InitializeKeeps ==
    ASSUME PeopleInv, NEW i \in Repository, People!Initialize(i)
    PROVE  PeopleInv'
<1> DEFINE c == ProcessOf[i]
           n == 1 + Cardinality(BegunAttempts)
<1>1. /\ StartupTyped /\ AttemptsAreAwaited /\ StartupInv
      /\ i \notin ready /\ awaits[i] = 0 /\ c \in Process
      /\ UNCHANGED <<indexed, failures, ready>>
    BY PeopleNames DEF PeopleInv, StartupInv, People!Initialize
<1>2. AccountsInv'
    <2>1. UNCHANGED <<now, users, job, result, read, proofs>> /\ ready \subseteq ready'
        BY DEF People!Initialize, People!logins
    <2> QED BY <2>1, AccountsStay DEF PeopleInv
<1>3. CASE memo[c] # 0 /\ awaits' = [awaits EXCEPT ![i] = memo[c]] /\ UNCHANGED <<attempt, memo>>
    <2>1. StartupTyped'
        BY <1>1, <1>3 DEF StartupTyped
    <2>2. \A j \in Repository : awaits[j] # 0 => awaits'[j] = awaits[j]
        BY <1>1, <1>3 DEF StartupTyped
    <2>3. BegunAttempts' = BegunAttempts /\ FailedAttempts' = FailedAttempts
        BY <1>3 DEF BegunAttempts, FailedAttempts
    <2>4. \A m \in People!Attempts : m # 0
        BY AttemptsAreFinite
    <2>5. \A m \in People!Attempts : attempt'[m] \in {"running", "made"} =>
              \E j \in Repository : awaits'[j] = m
        BY <1>1, <1>3, <2>2, <2>4 DEF AttemptsAreAwaited
    <2>6. \A j \in ready' : awaits'[j] # 0 /\ attempt'[awaits'[j]] = "made"
        BY <1>1, <1>3, <2>2 DEF AttemptsAreAwaited, StartupTyped
    <2>7. AttemptsAreAwaited'
        BY <1>1, <1>3, <2>3, <2>5, <2>6 DEF AttemptsAreAwaited
    <2> QED BY <1>2, <2>1, <2>7 DEF PeopleInv, StartupInv
<1>4. CASE /\ memo' = [memo EXCEPT ![c] = n]
           /\ attempt' = [attempt EXCEPT ![n] = "running"]
           /\ awaits' = [awaits EXCEPT ![i] = n]
    <2>1. n \in People!Attempts
        BY <1>1, RoomForAttempt
    <2>2. StartupTyped'
        BY <1>1, <1>4, <2>1 DEF StartupTyped
    <2>3. /\ attempt[n] = "none" /\ attempt'[n] = "running" /\ awaits'[i] = n
          /\ \A m \in People!Attempts : m # n => attempt'[m] = attempt[m]
          /\ \A j \in Repository : awaits[j] # 0 => awaits'[j] = awaits[j]
        BY <1>1, <1>4, <2>1, CountOfAttempts DEF StartupTyped, AttemptsAreAwaited
    <2>4. BegunAttempts' = BegunAttempts \union {n} /\ n \notin BegunAttempts
        BY <2>1, <2>3 DEF BegunAttempts
    <2>5. FailedAttempts' = FailedAttempts
        BY <2>1, <2>3 DEF FailedAttempts
    <2>6. Cardinality(BegunAttempts') = n
        <3>1. IsFiniteSet(BegunAttempts) /\ Cardinality(BegunAttempts) \in Nat
            BY <1>1, CountOfAttempts
        <3>2. Cardinality(BegunAttempts \union {n}) = Cardinality(BegunAttempts) + 1
            BY <2>4, <3>1, FS_AddElement
        <3> QED BY <2>4, <3>1, <3>2
    <2>7. \A m \in People!Attempts : attempt'[m] # "none" <=> m <= n
        <3>1. Cardinality(BegunAttempts) \in Nat /\ \A m \in People!Attempts : m \in Nat
            BY <1>1, CountOfAttempts, AttemptsAreFinite
        <3>2. \A m \in People!Attempts : attempt[m] # "none" <=> m <= Cardinality(BegunAttempts)
            BY <1>1 DEF AttemptsAreAwaited
        <3> QED BY <2>3, <3>1, <3>2
    <2>8. \A m \in People!Attempts : m # 0
        BY AttemptsAreFinite
    <2>9. \A m \in People!Attempts :
             /\ attempt'[m] \in {"running", "made"} => \E j \in Repository : awaits'[j] = m
             /\ attempt'[m] = "made" => indexed'
        BY <1>1, <2>3, <2>8 DEF AttemptsAreAwaited
    <2>10. \A j \in ready' : awaits'[j] # 0 /\ attempt'[awaits'[j]] = "made"
        <3> SUFFICES ASSUME NEW j \in ready PROVE awaits'[j] # 0 /\ attempt'[awaits'[j]] = "made"
            BY <1>1
        <3>1. awaits[j] # 0 /\ attempt[awaits[j]] = "made" /\ awaits[j] \in People!Attempts
            BY <1>1 DEF AttemptsAreAwaited, StartupTyped
        <3> QED BY <1>1, <2>3, <3>1 DEF StartupTyped
    <2>11. AttemptsAreAwaited'
        BY <1>1, <2>5, <2>6, <2>7, <2>9, <2>10 DEF AttemptsAreAwaited
    <2> QED BY <1>2, <2>2, <2>11 DEF PeopleInv, StartupInv
<1> QED BY <1>3, <1>4, PeopleCount DEF People!Initialize, BegunAttempts

LEMMA CreateIndexesKeeps ==
    ASSUME PeopleInv, NEW n \in People!Attempts, People!CreateIndexes(n)
    PROVE  PeopleInv'
<1>1. /\ StartupTyped /\ AttemptsAreAwaited
      /\ attempt[n] = "running" /\ UNCHANGED <<memo, awaits, ready>>
    BY DEF PeopleInv, StartupInv, People!CreateIndexes
<1>2. AccountsInv'
    <2>1. UNCHANGED <<now, users, job, result, read, proofs>> /\ ready \subseteq ready'
        BY DEF People!CreateIndexes, People!logins
    <2> QED BY <2>1, AccountsStay DEF PeopleInv
<1>3. ASSUME NEW s \in {"made", "failed"}, attempt' = [attempt EXCEPT ![n] = s],
             s = "made" => indexed' = TRUE /\ UNCHANGED failures,
             s = "failed" => failures < MaxFailures /\ failures' = failures + 1 /\ UNCHANGED indexed
      PROVE  PeopleInv'
    <2>1. StartupTyped'
        <3>1. indexed' \in BOOLEAN /\ failures' \in 0..MaxFailures
            <4>1. indexed \in BOOLEAN /\ failures \in 0..MaxFailures /\ MaxFailures \in Nat
                BY <1>1, PeopleNames DEF StartupTyped
            <4>2. CASE s = "made"
                BY <1>3, <4>1, <4>2
            <4>3. CASE s = "failed"
                <5>1. failures < MaxFailures /\ failures' = failures + 1 /\ indexed' = indexed
                    BY <1>3, <4>3
                <5> QED BY ONLY <4>1, <5>1
            <4> QED BY ONLY <4>2, <4>3, s \in {"made", "failed"}
        <3>2. attempt' \in [People!Attempts -> {"none", "running", "made", "failed"}]
            BY <1>1, <1>3 DEF StartupTyped
        <3> QED BY <1>1, <3>1, <3>2 DEF StartupTyped
    <2>2. /\ attempt'[n] = s /\ \A m \in People!Attempts : m # n => attempt'[m] = attempt[m]
        BY <1>1, <1>3 DEF StartupTyped
    <2>3. BegunAttempts' = BegunAttempts
        BY <1>1, <2>2 DEF BegunAttempts
    <2>4. Cardinality(FailedAttempts') = failures'
        <3>1. CASE s = "made"
            <4>1. FailedAttempts' = FailedAttempts
                BY <1>1, <2>2, <3>1 DEF FailedAttempts
            <4> QED BY <1>1, <1>3, <3>1, <4>1 DEF AttemptsAreAwaited
        <3>2. CASE s = "failed"
            <4>1. FailedAttempts' = FailedAttempts \union {n} /\ n \notin FailedAttempts
                BY <1>1, <2>2, <3>2 DEF FailedAttempts
            <4>2. Cardinality(FailedAttempts') = Cardinality(FailedAttempts) + 1
                BY <1>1, <4>1, CountOfAttempts, FS_AddElement
            <4> QED BY <1>1, <1>3, <3>2, <4>2 DEF AttemptsAreAwaited
        <3> QED BY <3>1, <3>2
    <2>5. \A m \in People!Attempts :
             /\ attempt'[m] # "none" <=> m <= Cardinality(BegunAttempts')
             /\ attempt'[m] \in {"running", "made"} => \E j \in Repository : awaits'[j] = m
             /\ attempt'[m] = "made" => indexed'
        BY <1>1, <1>3, <2>2, <2>3 DEF AttemptsAreAwaited
    <2>6. \A j \in ready' : awaits'[j] # 0 /\ attempt'[awaits'[j]] = "made"
        BY <1>1, <2>2 DEF AttemptsAreAwaited, StartupTyped
    <2> QED BY <1>2, <2>1, <2>4, <2>5, <2>6 DEF PeopleInv, StartupInv, AttemptsAreAwaited
<1> QED BY <1>3 DEF People!CreateIndexes

LEMMA InitializedKeeps ==
    ASSUME PeopleInv, NEW i \in Repository, People!Initialized(i)
    PROVE  PeopleInv'
<1> DEFINE n == awaits[i]
<1>1. /\ StartupTyped /\ AttemptsAreAwaited /\ n \in People!Attempts /\ i \notin ready
      /\ UNCHANGED <<indexed, attempt, failures>>
    BY DEF PeopleInv, StartupInv, StartupTyped, People!Initialized
<1>2. UNCHANGED <<now, users, job, result, read, proofs>>
    BY DEF People!Initialized, People!logins
<1>3. BegunAttempts' = BegunAttempts /\ FailedAttempts' = FailedAttempts
    BY <1>1 DEF BegunAttempts, FailedAttempts
<1>4. CASE attempt[n] = "made" /\ ready' = ready \union {i} /\ UNCHANGED <<memo, awaits>>
    <2>1. AccountsInv'
        BY <1>2, <1>4, AccountsStay DEF PeopleInv
    <2>2. StartupTyped'
        BY <1>1, <1>4 DEF StartupTyped
    <2>3. AttemptsAreAwaited'
        BY <1>1, <1>3, <1>4, AttemptsAreFinite DEF AttemptsAreAwaited
    <2> QED BY <2>1, <2>2, <2>3 DEF PeopleInv, StartupInv
<1>5. CASE /\ attempt[n] = "failed" /\ memo' = [memo EXCEPT ![ProcessOf[i]] = 0]
           /\ awaits' = [awaits EXCEPT ![i] = 0]
           /\ UNCHANGED ready
    <2>1. AccountsInv'
        BY <1>2, <1>5, AccountsStay DEF PeopleInv
    <2>2. StartupTyped'
        BY <1>1, <1>5 DEF StartupTyped
    <2>3. \A j \in Repository : j # i => awaits'[j] = awaits[j]
        BY <1>1, <1>5 DEF StartupTyped
    <2>4. \A m \in People!Attempts : attempt'[m] \in {"running", "made"} =>
              \E j \in Repository : awaits'[j] = m
        BY <1>1, <1>5, <2>3 DEF AttemptsAreAwaited
    <2>5. \A j \in ready' : awaits'[j] # 0 /\ attempt'[awaits'[j]] = "made"
        BY <1>1, <1>5, <2>3 DEF AttemptsAreAwaited, StartupTyped
    <2>6. AttemptsAreAwaited'
        BY <1>1, <1>3, <1>5, <2>4, <2>5 DEF AttemptsAreAwaited
    <2> QED BY <2>1, <2>2, <2>6 DEF PeopleInv, StartupInv
<1> QED BY <1>4, <1>5 DEF People!Initialized

-----------------------------------------------------------------------------
LEMMA CountOfRequests ==
    ASSUME NEW r \in Change, job[r] # "done", job \in [Change -> {"new", "compare", "generate", "done"}],
           job' = [job EXCEPT ![r] = "done"]
    PROVE  /\ Settled' = Settled \union {r}
           /\ Cardinality(Settled) \in Nat /\ Cardinality(Settled') = Cardinality(Settled) + 1
           /\ Cardinality(Settled') <= Cardinality(Change)
<1>1. Settled' = Settled \union {r} /\ r \notin Settled
    BY DEF Settled
<1>2. IsFiniteSet(Settled) /\ IsFiniteSet(Settled')
    BY PeopleNames, FS_Subset DEF Settled
<1>3. Cardinality(Settled) \in Nat
    BY <1>2, FS_CardinalityType
<1>4. Cardinality(Settled') = Cardinality(Settled) + 1
    BY <1>1, <1>2, FS_AddElement
<1>5. Cardinality(Settled') <= Cardinality(Change)
    BY PeopleNames, FS_Subset DEF Settled
<1> QED BY <1>1, <1>3, <1>4, <1>5

\* A request that changes no account, and is answered or goes on.
LEMMA RequestsThatRead ==
    ASSUME AccountsInv, NEW r \in Change, NEW s \in {"compare", "generate", "done"},
           NEW x \in {"none", "ok", "401", "404", "409", "500"}, NEW d \in Reading,
           job[r] # "done", job' = [job EXCEPT ![r] = s], result' = [result EXCEPT ![r] = x],
           read' = [read EXCEPT ![r] = d], s # "done" => WasTrue(d, users),
           UNCHANGED <<now, users, ready>>,
           proofs' = proofs \/ (s = "done" /\ WasTrue(d, users) /\ proofs' = proofs \union {d})
    PROVE  AccountsInv'
<1>1. AccountsTyped'
    BY DEF AccountsInv, AccountsTyped
<1>2. /\ job'[r] = s /\ read'[r] = d
      /\ \A o \in Change \ {r} : job'[o] = job[o] /\ read'[o] = read[o]
      /\ r \notin Settled /\ Settled \subseteq Settled' /\ (s = "done" => r \in Settled')
    BY DEF AccountsInv, AccountsTyped, Settled
<1>3. Cardinality(Settled) <= Cardinality(Settled') /\ Cardinality(Settled) \in Nat
        /\ Cardinality(Settled') \in Nat
    BY <1>2, PeopleNames, FS_Subset, FS_CardinalityType DEF Settled
<1>4. \A a \in Change : users[a].version \in Nat
    BY DEF AccountsInv, AccountsTyped, Account
<1>5. AccountsAreMade'
    BY <1>2, <1>3, <1>4 DEF AccountsInv, AccountsAreMade, People!Exists
<1>6. LoginsWereTrue'
    <2>1. \A o \in Change : job'[o] \in {"compare", "generate"} => WasTrue(read'[o], users')
        BY <1>2 DEF AccountsInv, LoginsWereTrue
    <2>2. ASSUME NEW t \in proofs'
          PROVE  t \in Reading /\ WasTrue(t, users') /\ \E o \in Settled' : t = read'[o]
        <3>1. CASE t \in proofs
            BY <1>2, <3>1 DEF AccountsInv, LoginsWereTrue, Settled
        <3>2. CASE t \notin proofs
            BY <1>2, <2>2, <3>2
        <3> QED BY <3>1, <3>2
    <2> QED BY <2>1, <2>2 DEF LoginsWereTrue
<1>7. People!EmailsAreUnique'
    BY DEF AccountsInv, People!EmailsAreUnique, People!IsActive, People!Exists
<1> QED BY <1>1, <1>5, <1>6, <1>7 DEF AccountsInv

\* A request that writes an account: its own, which is new, or an active one,
\* whose password it changes with the version only.
LEMMA RequestsThatWrite ==
    ASSUME AccountsInv, NEW r \in Change, NEW a \in Change, NEW doc \in Account,
           job[r] = "new", ready # {}, job' = [job EXCEPT ![r] = "done"],
           result' = [result EXCEPT ![r] = "ok"], users' = [users EXCEPT ![a] = doc],
           UNCHANGED <<now, read, proofs, ready>>,
           doc.email # Nobody, doc.deletedAt <= now,
           \/ a = r /\ doc.version = 0
           \/ /\ People!Exists(a)
              /\ \/ doc.version = users[a].version /\ doc.password = users[a].password
                 \/ doc.version = users[a].version + 1,
           doc.deletedAt = 0 =>
              \A b \in Change \ {a} : ~(People!IsActive(b) /\ users[b].email = doc.email)
    PROVE  AccountsInv'
<1>1. AccountsTyped'
    <2>1. users' \in [Change -> Account]
        BY DEF AccountsInv, AccountsTyped
    <2>2. \A b \in Change : users'[b].deletedAt <= now
        BY DEF AccountsInv, AccountsTyped
    <2>3. /\ job' \in [Change -> {"new", "compare", "generate", "done"}]
          /\ result' \in [Change -> {"none", "ok", "401", "404", "409", "500"}]
        BY DEF AccountsInv, AccountsTyped
    <2> QED BY <2>1, <2>2, <2>3 DEF AccountsInv, AccountsTyped
<1>2. /\ users'[a] = doc /\ job'[r] = "done"
      /\ \A b \in Change \ {a} : users'[b] = users[b]
      /\ \A o \in Change \ {r} : job'[o] = job[o]
    BY DEF AccountsInv, AccountsTyped
<1>3. /\ Settled' = Settled \union {r}
      /\ Cardinality(Settled) \in Nat /\ Cardinality(Settled') = Cardinality(Settled) + 1
    BY CountOfRequests DEF AccountsInv, AccountsTyped
<1>4. \A b \in Change : users[b].version \in Nat /\ users'[b].version \in Nat
    BY <1>1 DEF AccountsInv, AccountsTyped, Account
<1>5. ~People!Exists(r)
    BY DEF AccountsInv, AccountsAreMade
<1>6. AccountsAreMade'
    <2>0. \A b \in Change : ~People!Exists(b)' => users'[b].version = 0
        BY <1>2 DEF AccountsInv, AccountsAreMade, People!Exists
    <2> SUFFICES ASSUME NEW b \in Change, People!Exists(b)'
                 PROVE  job'[b] = "done" /\ users'[b].version < Cardinality(Settled') /\ ready # {}
        BY <2>0 DEF AccountsAreMade
    <2>1. CASE b # a
        <3>1. People!Exists(b)
            BY <1>2, <2>1 DEF People!Exists
        <3>2. job[b] = "done" /\ users[b].version < Cardinality(Settled)
            BY <3>1 DEF AccountsInv, AccountsAreMade
        <3> QED BY <1>2, <1>3, <1>4, <2>1, <3>2
    <2>2. CASE b = a /\ a = r /\ doc.version = 0
        BY <1>2, <1>3, <2>2
    <2>3. CASE b = a /\ People!Exists(a)
        <3>1. job[a] = "done" /\ users[a].version < Cardinality(Settled) /\ a # r
            BY <1>5, <2>3 DEF AccountsInv, AccountsAreMade
        <3>2. doc.version <= users[a].version + 1
            BY <1>4, <1>5, <3>1
        <3>3. doc.version \in Nat
            BY DEF Account
        <3> QED BY <1>2, <1>3, <1>4, <2>3, <3>1, <3>2, <3>3
    <2> QED BY <2>1, <2>2, <2>3
<1>7. ASSUME NEW t \in Reading, WasTrue(t, users) PROVE WasTrue(t, users')
    <2>1. t.account \in Change /\ t.version \in Nat
        BY DEF Reading
    <2>2. CASE t.account # a
        BY <1>2, <1>7, <2>1, <2>2 DEF WasTrue
    <2>3. CASE t.account = a
        <3>1. People!Exists(a) /\ t.version <= users[a].version
            BY <1>7, <2>3 DEF WasTrue, People!Exists
        <3>2. users'[a].email # Nobody
            BY <1>2
        <3>3. CASE doc.version = users[a].version /\ doc.password = users[a].password
            BY <1>2, <1>7, <2>3, <3>1, <3>2, <3>3 DEF WasTrue, People!Exists
        <3>4. CASE doc.version = users[a].version + 1
            <4>1. t.version < doc.version
                BY <1>4, <2>1, <3>1, <3>4
            <4> QED BY <1>2, <1>4, <2>1, <2>3, <3>2, <4>1 DEF WasTrue, People!Exists
        <3> QED BY <1>5, <3>1, <3>3, <3>4
    <2> QED BY <2>2, <2>3
<1>8. LoginsWereTrue'
    <2>1. ASSUME NEW o \in Change, job'[o] \in {"compare", "generate"} PROVE WasTrue(read'[o], users')
        <3>1. o # r /\ job[o] \in {"compare", "generate"}
            BY <1>2, <2>1
        <3>2. read[o] \in Reading /\ WasTrue(read[o], users)
            BY <3>1 DEF AccountsInv, AccountsTyped, LoginsWereTrue
        <3> QED BY <1>7, <3>2
    <2>2. ASSUME NEW t \in proofs
          PROVE  t \in Reading /\ WasTrue(t, users') /\ \E o \in Settled' : t = read'[o]
        BY <1>3, <1>7 DEF AccountsInv, LoginsWereTrue
    <2> QED BY <2>1, <2>2 DEF LoginsWereTrue
<1>9. People!EmailsAreUnique'
    <2> SUFFICES ASSUME NEW x \in Change, NEW y \in Change, x # y,
                        People!IsActive(x)', People!IsActive(y)'
                 PROVE  users'[x].email # users'[y].email
        BY DEF People!EmailsAreUnique
    <2>1. \A b \in Change \ {a} : People!IsActive(b)' => People!IsActive(b)
        BY <1>2 DEF People!IsActive, People!Exists
    <2>2. People!IsActive(a)' => doc.deletedAt = 0
        BY <1>2 DEF People!IsActive, People!Null
    <2>3. CASE x = a
        BY <1>2, <2>1, <2>2, <2>3
    <2>4. CASE y = a
        BY <1>2, <2>1, <2>2, <2>4
    <2>5. CASE x # a /\ y # a
        BY <1>2, <2>1, <2>5 DEF AccountsInv, People!EmailsAreUnique
    <2> QED BY <2>3, <2>4, <2>5
<1> QED BY <1>1, <1>6, <1>8, <1>9 DEF AccountsInv

LEMMA StartupStays ==
    ASSUME StartupInv, UNCHANGED <<indexed, attempt, memo, awaits, ready, failures>>
    PROVE  StartupInv'
BY DEF StartupInv, StartupTyped, AttemptsAreAwaited, BegunAttempts, FailedAttempts

LEMMA ReadyIsIndexed == ASSUME StartupInv, ready # {} PROVE indexed
BY DEF StartupInv, StartupTyped, AttemptsAreAwaited

\* a request that is answered and has changed nothing
LEMMA AnswersKeep ==
    ASSUME PeopleInv, NEW r \in Change, NEW x \in {"ok", "401", "404", "409", "500"},
           job[r] # "done", People!Answer(r, x),
           UNCHANGED <<now, indexed, attempt, memo, awaits, ready, failures, users, read, proofs>>
    PROVE  PeopleInv'
<1>1. /\ AccountsInv /\ read[r] \in Reading /\ read' = [read EXCEPT ![r] = read[r]]
      /\ job' = [job EXCEPT ![r] = "done"] /\ result' = [result EXCEPT ![r] = x]
    BY DEF PeopleInv, AccountsInv, AccountsTyped, People!Answer
<1>2. AccountsInv'
    BY <1>1, RequestsThatRead
<1> QED BY <1>2, StartupStays DEF PeopleInv

-----------------------------------------------------------------------------
\* a new account is the first of its email that is active
LEMMA CreateKeeps ==
    ASSUME PeopleInv, NEW r \in Change, People!Create(r)
    PROVE  PeopleInv'
<1>1. PICK e \in Email, w \in Password :
          LET doc == [email |-> e, password |-> w, version |-> 0, deletedAt |-> People!Null] IN
          IF People!Duplicates(r, doc) THEN People!Answer(r, "409") /\ UNCHANGED users
          ELSE People!Answer(r, "ok") /\ users' = [users EXCEPT ![r] = doc]
    BY DEF People!Create
<1> DEFINE doc == [email |-> e, password |-> w, version |-> 0, deletedAt |-> People!Null]
<1>2. /\ doc \in Account /\ doc.email = e /\ doc.version = 0 /\ doc.deletedAt = 0
      /\ doc.email # Nobody
    BY PeopleNames DEF Account, People!Null
<1>3. /\ AccountsInv /\ job[r] = "new" /\ ready # {}
      /\ UNCHANGED <<now, indexed, attempt, memo, awaits, ready, failures, read, proofs>>
    BY DEF PeopleInv, People!Create, People!New, People!startup, People!logins
<1>4. CASE People!Duplicates(r, doc)
    BY <1>1, <1>3, <1>4, AnswersKeep
<1>5. CASE ~People!Duplicates(r, doc)
    <2>1. indexed
        BY <1>3, ReadyIsIndexed DEF PeopleInv
    <2>2. /\ job' = [job EXCEPT ![r] = "done"] /\ result' = [result EXCEPT ![r] = "ok"]
          /\ users' = [users EXCEPT ![r] = doc]
        BY <1>1, <1>5 DEF People!Answer
    <2>3. \A b \in Change \ {r} : ~(People!IsActive(b) /\ users[b].email = doc.email)
        BY <1>2, <1>5, <2>1 DEF People!Duplicates, People!IsActive, People!Null
    <2>4. now \in 1..MaxTime
        BY <1>3 DEF AccountsInv, AccountsTyped
    <2> HIDE DEF doc
    <2>5. AccountsInv'
        <3>1. doc.deletedAt <= now
            BY <1>2, <2>4
        <3> QED BY <1>2, <1>3, <2>2, <2>3, <3>1, RequestsThatWrite
    <2> QED BY <1>3, <2>5, StartupStays DEF PeopleInv
<1> QED BY <1>4, <1>5

LEMMA WriteKeeps ==
    ASSUME PeopleInv, NEW r \in Change, NEW a \in Change, NEW doc \in Account,
           NEW x \in {"409", "500"}, People!Write(r, a, doc, x), People!New(r),
           UNCHANGED <<now, indexed, attempt, memo, awaits, ready, failures, read, proofs>>,
           doc.email # Nobody, doc.deletedAt <= now,
           \/ doc.version = users[a].version /\ doc.password = users[a].password
           \/ doc.version = users[a].version + 1
    PROVE  PeopleInv'
<1>1. AccountsInv /\ job[r] = "new" /\ ready # {}
    BY DEF PeopleInv, People!New
<1>2. CASE \E y \in {"404", "409", "500"} : People!Answer(r, y) /\ UNCHANGED users
    BY <1>1, <1>2, AnswersKeep
<1>3. CASE /\ People!IsActive(a) /\ ~People!Duplicates(a, doc)
           /\ People!Answer(r, "ok") /\ users' = [users EXCEPT ![a] = doc]
    <2>1. indexed
        BY <1>1, ReadyIsIndexed DEF PeopleInv
    <2>2. /\ job' = [job EXCEPT ![r] = "done"] /\ result' = [result EXCEPT ![r] = "ok"]
        BY <1>3 DEF People!Answer
    <2>3. doc.deletedAt = 0 => \A b \in Change \ {a} : ~(People!IsActive(b) /\ users[b].email = doc.email)
        BY <1>3, <2>1 DEF People!Duplicates, People!IsActive, People!Null
    <2>4. People!Exists(a)
        BY <1>3 DEF People!IsActive
    <2>5. AccountsInv'
        BY <1>1, <1>3, <2>2, <2>3, <2>4, RequestsThatWrite
    <2> QED BY <2>5, StartupStays DEF PeopleInv
<1> QED BY <1>2, <1>3 DEF People!Write

LEMMA UpdateKeeps ==
    ASSUME PeopleInv, NEW r \in Change, People!Update(r)
    PROVE  PeopleInv'
<1>1. PICK a \in Change, e \in Email \union {Nobody}, w \in Password \union {Nobody} :
          People!Exists(a) /\ People!Write(r, a, People!Patched(users[a], e, w), "409")
    BY DEF People!Update
<1> DEFINE old == users[a]
           doc == People!Patched(old, e, w)
<1>2. old \in Account /\ old.email # Nobody /\ old.deletedAt <= now
    BY <1>1 DEF PeopleInv, AccountsInv, AccountsTyped, People!Exists
<1> HIDE DEF old
<1>3. /\ doc \in Account /\ doc.email # Nobody /\ doc.deletedAt = old.deletedAt
      /\ \/ doc.version = old.version /\ doc.password = old.password
         \/ doc.version = old.version + 1
    <2> DEFINE e1 == IF e = Nobody THEN old.email ELSE e
               w1 == IF w = Nobody THEN old.password ELSE w
               n1 == IF w = Nobody THEN old.version ELSE old.version + 1
    <2>1. /\ e1 \in Email \union {Nobody} /\ e1 # Nobody /\ w1 \in Password \union {Nobody}
          /\ n1 \in Nat /\ ((n1 = old.version /\ w1 = old.password) \/ n1 = old.version + 1)
        BY <1>2 DEF Account
    <2>2. doc = [old EXCEPT !.email = e1, !.password = w1, !.version = n1]
        BY DEF People!Patched
    <2> HIDE DEF e1, w1, n1, doc
    <2> QED BY <1>2, <2>1, <2>2 DEF Account
<1> HIDE DEF doc
<1>4. /\ People!New(r)
      /\ UNCHANGED <<now, indexed, attempt, memo, awaits, ready, failures, read, proofs>>
    BY DEF People!Update, People!startup, People!logins
<1>5. People!Write(r, a, doc, "409")
    BY <1>1 DEF old, doc
<1> QED BY <1>2, <1>3, <1>4, <1>5, WriteKeeps DEF old

LEMMA DeleteKeeps ==
    ASSUME PeopleInv, NEW r \in Change, People!Delete(r)
    PROVE  PeopleInv'
<1>1. PICK a \in Change :
          /\ People!Exists(a)
          /\ \/ People!Write(r, a, [users[a] EXCEPT !.version = @ + 1, !.deletedAt = now], "500")
             \/ ~People!IsActive(a) /\ People!Answer(r, "ok") /\ UNCHANGED users
    BY DEF People!Delete
<1>2. /\ People!New(r)
      /\ UNCHANGED <<now, indexed, attempt, memo, awaits, ready, failures, read, proofs>>
    BY DEF People!Delete, People!startup, People!logins
<1>3. CASE People!Answer(r, "ok") /\ UNCHANGED users
    BY <1>2, <1>3, AnswersKeep DEF PeopleInv, People!New
<1> DEFINE old == users[a]
           doc == [old EXCEPT !.version = @ + 1, !.deletedAt = now]
<1>4. CASE People!Write(r, a, doc, "500")
    <2>1. old \in Account /\ old.email # Nobody /\ now \in Nat
        BY <1>1, PeopleNames DEF PeopleInv, AccountsInv, AccountsTyped, People!Exists
    <2> HIDE DEF old
    <2>2. /\ doc \in Account /\ doc.email # Nobody /\ doc.deletedAt = now
          /\ doc.version = old.version + 1
        <3>1. old.version + 1 \in Nat /\ doc = [old EXCEPT !.version = old.version + 1, !.deletedAt = now]
            BY <2>1 DEF Account
        <3> HIDE DEF doc
        <3> QED BY <2>1, <3>1 DEF Account
    <2> HIDE DEF doc
    <2> QED BY <1>2, <1>4, <2>1, <2>2, WriteKeeps DEF old
<1> QED BY <1>1, <1>3, <1>4

LEMMA LogoutAllKeeps ==
    ASSUME PeopleInv, NEW r \in Change, People!LogoutAll(r)
    PROVE  PeopleInv'
<1>1. PICK a \in Change :
          People!Exists(a) /\ People!Write(r, a, [users[a] EXCEPT !.version = @ + 1], "500")
    BY DEF People!LogoutAll
<1> DEFINE old == users[a]
           doc == [old EXCEPT !.version = @ + 1]
<1>2. /\ People!New(r)
      /\ UNCHANGED <<now, indexed, attempt, memo, awaits, ready, failures, read, proofs>>
    BY DEF People!LogoutAll, People!startup, People!logins
<1>3. old \in Account /\ old.email # Nobody /\ old.deletedAt <= now
    BY <1>1 DEF PeopleInv, AccountsInv, AccountsTyped, People!Exists
<1>4. People!Write(r, a, doc, "500")
    BY <1>1
<1> HIDE DEF old
<1>5. /\ doc \in Account /\ doc.email # Nobody /\ doc.deletedAt = old.deletedAt
      /\ doc.version = old.version + 1
    BY <1>3 DEF Account
<1> HIDE DEF doc
<1> QED BY <1>2, <1>3, <1>4, <1>5, WriteKeeps DEF old

LEMMA LogInKeeps ==
    ASSUME PeopleInv, NEW r \in Change, People!LogIn(r)
    PROVE  PeopleInv'
<1>1. /\ AccountsInv /\ AccountsTyped /\ job[r] = "new" /\ ready # {}
      /\ UNCHANGED <<now, indexed, attempt, memo, awaits, ready, failures, users, proofs>>
    BY DEF PeopleInv, AccountsInv, People!LogIn, People!New, People!startup
<1>2. CASE People!Answer(r, "401") /\ UNCHANGED read
    BY <1>1, <1>2, AnswersKeep
<1>3. CASE \E a \in Change :
              /\ People!IsActive(a)
              /\ read' = [read EXCEPT ![r] = [account |-> a, version |-> users[a].version,
                                              password |-> users[a].password]]
              /\ job' = [job EXCEPT ![r] = "compare"] /\ UNCHANGED result
    <2>1. PICK a \in Change :
              /\ People!IsActive(a)
              /\ read' = [read EXCEPT ![r] = [account |-> a, version |-> users[a].version,
                                              password |-> users[a].password]]
              /\ job' = [job EXCEPT ![r] = "compare"] /\ UNCHANGED result
        BY <1>3
    <2> DEFINE d == [account |-> a, version |-> users[a].version, password |-> users[a].password]
    <2>2. users[a] \in Account /\ users[a].email # Nobody
        BY <1>1, <2>1 DEF AccountsTyped, People!IsActive, People!Exists
    <2>3. d \in Reading /\ WasTrue(d, users)
        BY <2>2 DEF Reading, Account, WasTrue
    <2>4. read' = [read EXCEPT ![r] = d]
        BY <2>1
    <2> HIDE DEF d
    <2>5. /\ result[r] \in {"none", "ok", "401", "404", "409", "500"}
          /\ result' = [result EXCEPT ![r] = result[r]]
        BY <1>1, <2>1 DEF AccountsTyped
    <2>6. AccountsInv'
        BY <1>1, <2>1, <2>3, <2>4, <2>5, RequestsThatRead
    <2> QED BY <1>1, <2>6, StartupStays DEF PeopleInv
<1> QED BY <1>2, <1>3 DEF People!LogIn

LEMMA CompareKeeps ==
    ASSUME PeopleInv, NEW r \in Change, People!Compare(r)
    PROVE  PeopleInv'
<1>1. /\ AccountsInv /\ AccountsTyped /\ job[r] = "compare"
      /\ UNCHANGED <<now, indexed, attempt, memo, awaits, ready, failures, users, read, proofs>>
    BY DEF PeopleInv, AccountsInv, People!Compare, People!startup, People!logins
<1>2. CASE People!Answer(r, "401")
    BY <1>1, <1>2, AnswersKeep
<1>3. CASE job' = [job EXCEPT ![r] = "generate"] /\ UNCHANGED result
    <2>1. read[r] \in Reading /\ WasTrue(read[r], users)
        BY <1>1 DEF AccountsInv, AccountsTyped, LoginsWereTrue
    <2>2. /\ result[r] \in {"none", "ok", "401", "404", "409", "500"}
          /\ result' = [result EXCEPT ![r] = result[r]]
          /\ read' = [read EXCEPT ![r] = read[r]]
        BY <1>1, <1>3 DEF AccountsTyped
    <2>3. AccountsInv'
        BY <1>1, <1>3, <2>1, <2>2, RequestsThatRead
    <2> QED BY <1>1, <2>3, StartupStays DEF PeopleInv
<1> QED BY <1>2, <1>3 DEF People!Compare

LEMMA GenerateKeeps ==
    ASSUME PeopleInv, NEW r \in Change, People!Generate(r)
    PROVE  PeopleInv'
<1>1. /\ AccountsInv /\ AccountsTyped /\ job[r] = "generate"
      /\ UNCHANGED <<now, indexed, attempt, memo, awaits, ready, failures, users, read>>
    BY DEF PeopleInv, AccountsInv, People!Generate, People!startup
<1>2. CASE People!Answer(r, "401") /\ UNCHANGED proofs
    BY <1>1, <1>2, AnswersKeep
<1>3. CASE proofs' = proofs \union {read[r]} /\ People!Answer(r, "ok")
    <2>1. read[r] \in Reading /\ WasTrue(read[r], users)
        BY <1>1 DEF AccountsInv, AccountsTyped, LoginsWereTrue
    <2>2. read' = [read EXCEPT ![r] = read[r]]
        BY <1>1 DEF AccountsTyped
    <2>3. AccountsInv'
        BY <1>1, <1>3, <2>1, <2>2, RequestsThatRead DEF People!Answer
    <2> QED BY <1>1, <2>3, StartupStays DEF PeopleInv
<1> QED BY <1>2, <1>3 DEF People!Generate

LEMMA TickKeeps == ASSUME PeopleInv, People!Tick PROVE PeopleInv'
<1>1. /\ AccountsInv /\ now \in 1..MaxTime /\ now < MaxTime /\ now' = now + 1
      /\ UNCHANGED <<indexed, attempt, memo, awaits, ready, failures, users, job, result, read, proofs>>
    BY DEF PeopleInv, AccountsInv, AccountsTyped, People!Tick, People!startup, People!logins
<1>2. AccountsTyped'
    <2>1. \A a \in Change : users[a].deletedAt \in Nat /\ users[a].deletedAt <= now
        BY <1>1 DEF AccountsInv, AccountsTyped, Account
    <2>2. now' \in 1..MaxTime /\ \A a \in Change : users[a].deletedAt <= now'
        BY <1>1, <2>1, PeopleNames
    <2> QED BY <1>1, <2>2 DEF AccountsInv, AccountsTyped
<1>3. AccountsAreMade' /\ LoginsWereTrue'
    BY <1>1 DEF AccountsInv, AccountsAreMade, LoginsWereTrue, WasTrue, Settled, People!Exists
<1>4. People!EmailsAreUnique'
    BY <1>1 DEF AccountsInv, People!EmailsAreUnique, People!IsActive, People!Exists
<1> QED BY <1>1, <1>2, <1>3, <1>4, StartupStays DEF PeopleInv, AccountsInv

LEMMA PeopleStep == PeopleInv /\ [People!Next]_People!vars => PeopleInv'
<1> SUFFICES ASSUME PeopleInv, [People!Next]_People!vars PROVE PeopleInv'
    OBVIOUS
<1>1. ASSUME NEW i \in Repository, People!Initialize(i) \/ People!Initialized(i) PROVE PeopleInv'
    BY <1>1, InitializeKeeps, InitializedKeeps
<1>2. ASSUME NEW n \in People!Attempts, People!CreateIndexes(n) PROVE PeopleInv'
    BY <1>2, CreateIndexesKeeps
<1>3. ASSUME NEW r \in Change,
             \/ People!Create(r) \/ People!Update(r) \/ People!Delete(r) \/ People!LogoutAll(r)
             \/ People!LogIn(r) \/ People!Compare(r) \/ People!Generate(r)
      PROVE  PeopleInv'
    BY <1>3, CreateKeeps, UpdateKeeps, DeleteKeeps, LogoutAllKeeps, LogInKeeps, CompareKeeps,
       GenerateKeeps
<1>4. CASE UNCHANGED People!vars
    <2>1. UNCHANGED <<now, indexed, attempt, memo, awaits, ready, failures, users, job, result,
                      read, proofs>>
        BY <1>4 DEF People!vars, People!startup, People!logins
    <2>2. StartupInv' /\ AccountsInv'
        BY <2>1, StartupStays, AccountsStay DEF PeopleInv
    <2> QED BY <2>2 DEF PeopleInv
<1> QED BY <1>1, <1>2, <1>3, <1>4, TickKeeps DEF People!Next

\* Accounts keep their inductive invariant, for any requests, repositories,
\* processes, emails and passwords.
THEOREM PeopleInvariant == People!Spec => []PeopleInv
BY PeopleInitially, PeopleStep, PTL DEF People!Spec

\* Whoever has a token that is good has logged in with the password that the
\* account has now, and of the accounts with one email one is active
\* (findUserByCredentials, generateAuthTokens, the unique index).
THEOREM AccountsAreSoundAlways == People!Spec => []AccountsAreSound
<1>1. PeopleInv => AccountsAreSound
    <2> SUFFICES ASSUME PeopleInv PROVE AccountsAreSound
        OBVIOUS
    <2>1. StartupTyped /\ AccountsTyped /\ AccountsAreMade /\ LoginsWereTrue
        BY DEF PeopleInv, StartupInv, AccountsInv
    <2>2. People!EmailsAreUnique
        BY DEF PeopleInv, AccountsInv
    <2>3. People!TokensProveThePassword
        BY <2>1 DEF LoginsWereTrue, WasTrue, People!TokensProveThePassword
    <2>4. ready # {} => indexed
        BY ReadyIsIndexed DEF PeopleInv
    <2>5. Cardinality(Settled) \in Nat /\ Cardinality(Settled) <= Cardinality(Change)
            /\ Cardinality(Change) \in Nat
        BY PeopleNames, FS_Subset, FS_CardinalityType DEF Settled
    <2>6. ASSUME NEW a \in Change
          PROVE  /\ users[a].email \in Email \union {Nobody}
                 /\ users[a].password \in Password \union {Nobody}
                 /\ users[a].version \in 0..People!Cardinality(Change)
                 /\ users[a].deletedAt \in 0..now
        <3>1. users[a] \in Account /\ users[a].deletedAt <= now /\ now \in Nat
            BY <2>1, PeopleNames DEF AccountsTyped
        <3>2. users[a].version <= Cardinality(Change)
            BY <2>1, <2>5, <3>1 DEF AccountsAreMade, Account
        <3> QED BY <2>5, <3>1, <3>2, PeopleCount DEF Account
    <2>7. ASSUME NEW r \in Change
          PROVE  read[r].account \in Change /\ read[r].password \in Password \union {Nobody}
        BY <2>1 DEF AccountsTyped, Reading
    <2>8. proofs \subseteq {read[r] : r \in Change}
        BY <2>1 DEF LoginsWereTrue, Settled
    <2>9. People!TypeOK
        BY <2>1, <2>4, <2>6, <2>7, <2>8 DEF StartupTyped, AccountsTyped, People!TypeOK
    <2> QED BY <2>2, <2>3, <2>9 DEF AccountsAreSound
<1> QED BY <1>1, PeopleInvariant, PTL
=============================================================================
