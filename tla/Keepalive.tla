------------------------------ MODULE Keepalive ------------------------------
(***************************************************************************)
(* websocket_keepalive_options (keepalive.py): the ping options of both    *)
(* websocket clients, from arguments, environment variables and defaults.  *)
(* Seconds are counted in hundredths.                                      *)
(***************************************************************************)
LOCAL INSTANCE Integers

CONSTANTS Seconds,  \* numbers that are configured
          Unset,    \* None, or an environment variable that is empty or missing
          Junk      \* what float() rejects, and what is not finite

ASSUME KeepaliveAssumption ==
  /\ Seconds \subseteq Int
  /\ Unset \notin Int /\ Junk \notin Int

DefaultPingInterval == 2500
DefaultPingTimeout == 1000
Configurable == Seconds \cup {Unset, Junk}

\* An argument that is not None wins over the first variable that is set.
Configured(argument, specific, general) ==
  IF argument # Unset THEN argument
  ELSE IF specific # Unset THEN specific ELSE general

NonNegativeFloat(value, default) ==
  IF value \in {Unset, Junk} \/ value < 0 THEN default ELSE value

\* Faulty variant: a timeout that is too long is left as it is.
UnadjustedTimeout(interval, timeout) == timeout

\* max(0.1, interval / 2) in place of a timeout that is too long.
AdjustedTimeout(interval, timeout) ==
  IF timeout < interval THEN timeout
  ELSE IF interval \div 2 > 10 THEN interval \div 2 ELSE 10

Options(pingInterval, pingTimeout) ==
  LET interval == NonNegativeFloat(pingInterval, DefaultPingInterval)
      timeout == NonNegativeFloat(pingTimeout, DefaultPingTimeout)
  IN IF interval = 0 THEN [interval |-> 0]
     ELSE [interval |-> interval,
           timeout |-> IF timeout = 0 THEN Unset ELSE AdjustedTimeout(interval, timeout)]

-----------------------------------------------------------------------------
\* "WebSocket ping timeout must be lower than ping interval" (keepalive.py): it
\* is, whatever is configured where, with an interval of more than 0.1 s.  (The
\* websocket library refuses to run otherwise, and at 0.1 s and below the
\* adjusted timeout of 0.1 s is no shorter than the interval.)
TimeoutBelowInterval ==
  \A arg1, client1, shared1, arg2, client2, shared2 \in Configurable :
    LET o == Options(Configured(arg1, client1, shared1), Configured(arg2, client2, shared2))
    IN o.interval > 10 => o.timeout = Unset \/ o.timeout < o.interval
=============================================================================
