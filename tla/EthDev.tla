------------------------------- MODULE EthDev -------------------------------
(***************************************************************************)
(* gen/priv/eth_dev.cpp: how the DPDK port is brought up, and down again.  *)
(* Each step of the constructor may throw.                                 *)
(***************************************************************************)
VARIABLES
  port,   \* the port: "closed", "configured" or "started"
  ethDev  \* the next step of the constructor, "none" before it, "valid" or "failed" after it

ethVars == <<port, ethDev>>

EthInit == port = "closed" /\ ethDev = "none"

\* set_capabilities(): the port cannot be read, or lacks an offload.
SetCapabilities ==
  /\ ethDev = "none"
  /\ ethDev' \in {"configure", "failed"}
  /\ UNCHANGED port

\* configure(): the port, its receive queue, its transmit queue.  Nothing undoes
\* the first steps if a later one fails.
Configure ==
  /\ ethDev = "configure"
  /\ \/ port' = "configured" /\ ethDev' = "start"
     \/ port' \in {"closed", "configured"} /\ ethDev' = "failed"

\* start() and rte_eth_dev_start(), which fails: close_dev closes the port.
StartFails ==
  /\ ethDev = "start"
  /\ port' = "closed" /\ ethDev' = "failed"

StartPort ==
  /\ ethDev = "start"
  /\ port' = "started" /\ ethDev' = "link"

LinkUp ==
  /\ ethDev = "link"
  /\ ethDev' = "valid"
  /\ UNCHANGED port

\* Mutant: the port is closed but not stopped first.
LinkStaysDownUnstopped ==
  /\ ethDev = "link"
  /\ ethDev' = "failed"
  /\ UNCHANGED port

\* The link has been down at each of the check_cnt looks at it: the port is
\* stopped, and close_dev closes it.
LinkStaysDown ==
  /\ ethDev = "link"
  /\ port' = "closed" /\ ethDev' = "failed"

\* ~eth_dev(): rte_eth_dev_stop(), rte_eth_dev_close().
ClosePort ==
  /\ ethDev = "valid"
  /\ port' = "closed" /\ ethDev' = "none"

EthTypeOK ==
  /\ port \in {"closed", "configured", "started"}
  /\ ethDev \in {"none", "configure", "start", "link", "valid", "failed"}
=============================================================================
