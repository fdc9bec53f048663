SPECIFICATION EngineFairSpec
CONSTANTS
  Calls = {c1, c2, c3}
  NewestAPI = 3
  Offers <- MCOffers
  NoCall = NoCall
  NoOffer = NoOffer
INVARIANT OneRetryIsEnough
PROPERTY GoodVersionIsKept CallsEnd
