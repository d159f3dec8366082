------------------------------- MODULE Requests -------------------------------
(* What the back-office services share: a database and the requests that   *)
(* work on it at the same time.                                            *)
CONSTANTS Clients,  \* concurrent requests
          None      \* an absent row or value
===============================================================================
