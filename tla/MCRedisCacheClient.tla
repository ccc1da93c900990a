-------------------------- MODULE MCRedisCacheClient --------------------------
(* main.cpp's testCacheClient(): keys "k2" and "k3", and "k2"'s get        *)
(* callback sets "k2".  Another client writes any key twice.               *)
EXTENDS RedisCacheClient

MCKeys == {"k2", "k3"}
====
