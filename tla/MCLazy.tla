------------------------------- MODULE MCLazy --------------------------------
(* Two threads; a probe and an adapter of one package, as with aiohttp, and *)
(* a probe of another.                                                     *)
EXTENDS Lazy, TLC

CONSTANTS HttpAiohttpProbe, make_aiohttp_endpoint, RedisProbe

MCNames == {HttpAiohttpProbe, make_aiohttp_endpoint, RedisProbe}
MCPackageOf == RedisProbe :> "redis" @@ [n \in MCNames |-> "aiohttp"]
MCSymmetry == Permutations(Threads)
=============================================================================
