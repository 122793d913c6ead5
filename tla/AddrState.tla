----------------------------- MODULE AddrState -----------------------------
(***************************************************************************)
(* The address of one port of the bare-metal echo server                   *)
(* (Vitis/common/src/main.c): the tick interrupt, the poll it asks the     *)
(* main loop for, and the state machine from link to DHCP lease or static  *)
(* address.                                                                *)
(*                                                                         *)
(* lwIP and its DHCP client run in the main loop, between polls; they, the *)
(* PHY and taxi_macif_link_poll's registers are external.  Other ports are *)
(* polled alike and share only the flag.                                   *)
(*                                                                         *)
(* Definitions marked "Faulty" are mistakes the code does not make.       *)
(***************************************************************************)
EXTENDS Integers

CONSTANTS
    Wrap,       \* 2^32: ticks is a u32
    PollTicks,  \* POLL_TICKS
    Timeout,    \* DHCP_TIMEOUT_TICKS
    MaxWait     \* ticks before which a waiting port has been polled again

\* ticks takes seven years to go round, and does not do so between two polls.
ASSUME TickAssumption ==
    /\ {Wrap, PollTicks, Timeout, MaxWait} \subseteq Nat \ {0}
    /\ Timeout <= MaxWait /\ MaxWait < Wrap

VARIABLES
    ticks, pollFlag,    \* written by tick_handler
    mainAt,             \* the main loop: in lwIP, or its place in poll_port
    cable,              \* the PHY has a link
    linkUp, changed,    \* netif_is_link_up, and what taxi_macif_link_poll returned
    addrState,          \* addr_state
    startTick,          \* dhcp_start_tick
    dhcp,               \* the DHCP client of lwIP
    address,            \* where the address of the netif comes from
    waited,             \* ticks since DHCP was started (history)
    bounced             \* the link has come up since then (history)

addrLink == <<cable, linkUp, changed>>
addrNetif == <<addrState, startTick, dhcp, address>>
history == <<waited, bounced>>
addrVars == <<ticks, pollFlag, mainAt, addrLink, addrNetif, history>>

AddrTyped ==
    /\ ticks \in 0..(Wrap - 1) /\ startTick \in 0..(Wrap - 1) /\ waited \in 0..MaxWait
    /\ {pollFlag, cable, linkUp, changed, bounced} \subseteq BOOLEAN
    /\ mainAt \in {"lwip", "link", "state"}
    /\ addrState \in {"ADDR_NONE", "ADDR_DHCP_WAIT", "ADDR_DHCP", "ADDR_STATIC"}
    /\ dhcp \in {"off", "discover", "bound", "reboot"}
    /\ address \in {"none", "lease", "static"}

\* main polls once before the loop.
AddrInit ==
    /\ ticks = 0 /\ pollFlag = FALSE /\ mainAt = "link"
    /\ cable \in BOOLEAN /\ linkUp = FALSE /\ changed = FALSE
    /\ addrState = "ADDR_NONE" /\ startTick = 0
    /\ dhcp = "off" /\ address = "none" /\ waited = 0 /\ bounced = FALSE

----------------------------------------------------------------------------

\* tick_handler.
TickHandler ==
    /\ addrState = "ADDR_DHCP_WAIT" => waited < MaxWait
    /\ ticks' = (ticks + 1) % Wrap
    /\ pollFlag' = (pollFlag \/ ticks' % PollTicks = 0)
    /\ waited' = IF addrState = "ADDR_DHCP_WAIT" THEN waited + 1 ELSE waited
    /\ UNCHANGED <<mainAt, addrLink, addrNetif, bounced>>

\* The main loop finds the flag set.
PollBegin ==
    /\ mainAt = "lwip" /\ pollFlag
    /\ pollFlag' = FALSE /\ mainAt' = "link"
    /\ UNCHANGED <<ticks, addrLink, addrNetif, history>>

\* dhcp_network_changed_link_up: a lease is asked for again, a search restarted.
Kick == dhcp' = IF dhcp = "bound" THEN "reboot" ELSE dhcp

\* netif_set_link_up, when the flag was down, tells the DHCP client by itself;
\* netif_set_link_down tells it nothing.
LinkComesUp == cable /\ ~linkUp
SetLink ==
    /\ linkUp' = cable
    /\ bounced' = (bounced \/ (LinkComesUp /\ addrState = "ADDR_DHCP_WAIT"))
    /\ IF LinkComesUp THEN Kick ELSE UNCHANGED dhcp

\* taxi_macif_link_poll: a change of speed is one too.
LinkPoll ==
    /\ mainAt = "link"
    /\ changed' \in {cable # linkUp, cable}
    /\ SetLink
    /\ mainAt' = "state"
    /\ UNCHANGED <<ticks, pollFlag, cable, addrState, startTick, address, waited>>

----------------------------------------------------------------------------
(* poll_port, by state.                                                    *)

\* set_static_address.
SetStaticAddress == addrState' = "ADDR_STATIC" /\ address' = "static"

StartDhcp ==
    /\ addrState = "ADDR_NONE" /\ linkUp
    /\ \/ /\ addrState' = "ADDR_DHCP_WAIT" /\ startTick' = ticks
          /\ dhcp' = "discover" /\ waited' = 0
          /\ UNCHANGED <<address, bounced>>
       \/ \* dhcp_start fails
          SetStaticAddress /\ UNCHANGED <<startTick, dhcp, history>>

HaveLease ==
    /\ addrState = "ADDR_DHCP_WAIT" /\ dhcp = "bound"
    /\ addrState' = "ADDR_DHCP"
    /\ UNCHANGED <<startTick, dhcp, address, history>>

\* Faulty: the deadline is computed and may wrap.
DeadlinePlain == ticks >= (startTick + Timeout) % Wrap
\* The difference is, as a u32.
DeadlinePassed == (ticks - startTick) % Wrap >= Timeout

\* Faulty: the lease is released but the client goes on.
ReleaseOnly == dhcp' = "discover"
ReleaseAndStop == dhcp' = "off"

FallBack ==
    /\ addrState = "ADDR_DHCP_WAIT" /\ dhcp # "bound" /\ DeadlinePassed
    /\ ReleaseAndStop
    /\ SetStaticAddress
    /\ UNCHANGED <<startTick, history>>

\* Faulty: the deadline starts again.
BouncedRestarts ==
    /\ Kick
    /\ startTick' = ticks /\ waited' = 0
    /\ UNCHANGED <<addrState, address, bounced>>
Bounced == Kick /\ UNCHANGED <<addrState, startTick, address, history>>

LinkBounced ==
    /\ changed /\ linkUp
    /\ \/ addrState = "ADDR_DHCP"
       \/ addrState = "ADDR_DHCP_WAIT" /\ dhcp # "bound" /\ ~DeadlinePassed
    /\ Bounced

NoChange ==
    /\ \/ addrState = "ADDR_NONE" /\ ~linkUp
       \/ addrState = "ADDR_DHCP_WAIT" /\ dhcp # "bound" /\ ~DeadlinePassed /\ ~(changed /\ linkUp)
       \/ addrState = "ADDR_DHCP" /\ ~(changed /\ linkUp)
       \/ addrState = "ADDR_STATIC"
    /\ UNCHANGED <<addrNetif, history>>

PollState ==
    /\ mainAt = "state"
    /\ StartDhcp \/ HaveLease \/ FallBack \/ LinkBounced \/ NoChange
    /\ mainAt' = "lwip"
    /\ UNCHANGED <<ticks, pollFlag, addrLink>>

----------------------------------------------------------------------------
(* The cable, and lwIP's DHCP client.                                      *)

Cable ==
    /\ cable' = ~cable
    /\ UNCHANGED <<ticks, pollFlag, mainAt, linkUp, changed, addrNetif, history>>

LeaseGranted ==
    /\ mainAt = "lwip" /\ dhcp \in {"discover", "reboot"}
    /\ dhcp' = "bound" /\ address' = "lease"
    /\ UNCHANGED <<ticks, pollFlag, mainAt, addrLink, addrState, startTick, history>>

\* A lease that is refused or ends takes the address with it; a search that
\* follows unanswered requests leaves it for the time being.
LeaseLost ==
    /\ mainAt = "lwip" /\ dhcp \in {"bound", "reboot"}
    /\ dhcp' = "discover"
    /\ address' = "none" \/ (dhcp = "reboot" /\ UNCHANGED address)
    /\ UNCHANGED <<ticks, pollFlag, mainAt, addrLink, addrState, startTick, history>>

----------------------------------------------------------------------------

Poll == PollBegin \/ LinkPoll \/ PollState
Lwip == LeaseGranted \/ LeaseLost
AddrNext == TickHandler \/ Poll \/ Cable \/ Lwip

AddrSpec == AddrInit /\ [][AddrNext]_addrVars

\* The timer runs, and the main loop goes round.
AddrFairSpec == AddrSpec /\ WF_addrVars(TickHandler) /\ WF_addrVars(Poll)

----------------------------------------------------------------------------
\* The state of a port, the DHCP client and the address of the netif agree at
\* any time, whatever the client did since the last poll: a port that fell back
\* has no client left that could replace the address it has announced, and one
\* that waits has a lease the client does not stand by only when its link has
\* come up after the start.
AddressAgrees ==
    /\ AddrTyped
    /\ addrState = "ADDR_NONE" => dhcp = "off" /\ address = "none"
    /\ addrState = "ADDR_STATIC" => dhcp = "off" /\ address = "static"
    /\ addrState = "ADDR_DHCP_WAIT" =>
          \/ <<dhcp, address>> \in {<<"discover", "none">>, <<"bound", "lease">>}
          \/ bounced /\ dhcp \in {"reboot", "discover"} /\ address = "lease"
    /\ addrState = "ADDR_DHCP" =>
          dhcp # "off" /\ address # "static" /\ (dhcp # "discover" => address = "lease")

\* A port falls back only after the whole time it gives DHCP, also when ticks
\* wraps meanwhile.  A lease that has come before the poll that finds the time
\* over is kept, unless the link has come up since the start: then the client
\* asks for its lease again, and the port may give up the one it has.
FallbackJustified ==
    [][addrState = "ADDR_DHCP_WAIT" /\ addrState' = "ADDR_STATIC" =>
          waited >= Timeout /\ (address = "lease" => bounced)]_addrVars

\* A port that waits for a lease gets an address in the end, however often its
\* link bounces.
WaitEnds == addrState = "ADDR_DHCP_WAIT" ~> addrState # "ADDR_DHCP_WAIT"
=============================================================================
