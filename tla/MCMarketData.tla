----------------------------- MODULE MCMarketData -----------------------------
(***************************************************************************)
(* Small instances, for TLC, of the three components that hand on market   *)
(* data as it arrives: the quote buffer and the candle recorder, to the    *)
(* database, and the live quotes, to the browsers.  What the browsers      *)
(* watch is tracked in a set of their own, so the three share no state:    *)
(* focus says which of them a behaviour is about, and the others keep      *)
(* their initial state.                                                    *)
(***************************************************************************)
EXTENDS MCQuotePersistence, FutoptRecorder, LiveQuotes

VARIABLE focus

marketVars == <<vars, frVars, lqVars, focus>>

\* Every name stands for the same contract
OneContract(p) == Watchable

MarketInit ==
    /\ focus \in {"buffer", "recorder", "browsers"}
    /\ Init /\ FrInit /\ LqInit
    /\ focus # "recorder" => ready

MarketNext ==
    /\ UNCHANGED focus
    /\ \/ focus = "buffer" /\ UNCHANGED <<frVars, lqVars>> /\ Next
       \/ focus = "recorder" /\ UNCHANGED <<vars, lqVars>> /\ FrNext
       \/ focus = "browsers" /\ UNCHANGED <<vars, frVars>> /\ LqNext

\* The fairness of each component, for the behaviours that are about it
MarketFairness ==
    /\ WF_vars(focus = "buffer" /\ Worker)
    /\ \A t \in Tickers : SF_vars(focus = "buffer" /\ PersistOk(t))
    /\ WF_frVars(focus = "recorder" /\ LoopStep)

MarketSpec == MarketInit /\ [][MarketNext]_marketVars /\ MarketFairness

=============================================================================
