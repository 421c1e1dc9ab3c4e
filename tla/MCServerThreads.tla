--------------------------- MODULE MCServerThreads ---------------------------
\* ServerThreads under names that are nowhere else, for TLC, and for the module
\* of proofs that is also about another component.
VARIABLES running, mutex, main, handler, net, net_joinable, console,
          console_joinable, stop_queued, dirty, plugins, process

Threads == INSTANCE ServerThreads

ThreadsSpec == Threads!FairSpec

\* Nothing that changed is lost, however the server is stopped.
NothingUnsaved == Threads!NothingUnsaved

\* The network thread is through before the final saves and before the plugins
\* are disabled.
NetworkIsThrough == Threads!NetworkIsThrough

\* A shutdown that was requested ends.
ShutdownEnds == Threads!ShutdownEnds
=============================================================================
