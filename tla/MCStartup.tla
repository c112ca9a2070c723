----------------------------- MODULE MCStartup -----------------------------
(***************************************************************************)
(* The scripts for TLC.                                                    *)
(***************************************************************************)
EXTENDS Startup

\* Each of the scripts, and each daemon under a script that stops processes by
\* their ids and under the one that goes by names.
MCScripts == { run_sh("netlink"), run_doe2cosim_sh("chardev"),
               run_tdx_doe2cosim_sh("chardev"), run_doe2cosim_improved_sh("chardev"),
               run_doe2cosim_improved_sh("netlink"), run_doe2cosim_py("chardev") }

Improved == {run_doe2cosim_improved_sh(m) : m \in Mechanisms}
Plain    == {run_doe2cosim_sh(m) : m \in Mechanisms}
Python   == {run_doe2cosim_py(m) : m \in Mechanisms}

Anything == {TRUE, FALSE}
Fresh    == {FALSE}
=============================================================================
