\* the two services of the gateway; the state space needs no bound
SPECIFICATION FairSpec
CONSTANT Services = {s1, s2}
PROPERTY RegisteredIsOffered
